---------------------------- MODULE Spec2Model ----------------------------
(* A model of the AXP enrichment orchestrator (src/src/enrichment/       *)
(* providers.py): provider registration, the enrich_brand and            *)
(* enrich_product coroutines with their TTL cache, and the anomaly       *)
(* detector of BaseProvider.                                             *)
(*                                                                       *)
(* Time is counted in hours.  Ratings are counted in tenths of a star    *)
(* (46 is 4.6).  A ProviderEvidence object is a record whose oid is the  *)
(* object's identity: two references to one Python object are two        *)
(* records with one oid, and a write through either changes both.        *)
EXTENDS Integers, Sequences, FiniteSets, TLC

VARIABLES
    providers,        \* EnrichmentOrchestrator.providers, in insertion order
    cache,            \* EnrichmentOrchestrator.cache: a dict, key -> Evidence
    created,          \* number of ProviderEvidence objects built so far
    now,              \* datetime.utcnow(), in hours
    calls,            \* the enrich_* coroutines: arguments, position, result map
    invoked,          \* number of adapter invocations (fetch_*_data calls) so far
    printed,          \* the provider types named in the "Error fetching from" lines
    new_data,         \* detect_anomaly: argument new_data
    historical_data,  \* detect_anomaly: argument historical_data
    anomaly,          \* detect_anomaly: <<>> before the call, then <<the value returned>>
    credential,       \* TrustVerifier: the credential at hand, <<>> or <<vc_data>>
    verdict,          \* TrustVerifier: <<>>, or <<the outcome of the last verify_* call>>
    lookups,          \* calculate_domain_age: what each of the four lookups answers
    position,         \* calculate_domain_age: the statement the call stands at
    earliest_date,    \* calculate_domain_age: local earliest_date
    sources,          \* calculate_domain_age: local sources
    age,              \* calculate_domain_age: <<>>, then <<the outcome of the call>>
    data_sources,     \* compute_intent_signals: argument data_sources
    signals,          \* compute_intent_signals: <<>>, then <<the outcome of the call>>
    product_data,     \* calculate_all_soft_signals: argument product_data
    soft_signals      \* calculate_all_soft_signals: <<>>, then <<the outcome of the call>>

ovars == <<providers, cache, created, now, calls, invoked, printed>>
avars == <<new_data, historical_data, anomaly>>
tvars == <<credential, verdict>>
dvars == <<lookups, position, earliest_date, sources, age>>
ivars == <<data_sources, signals>>
kvars == <<product_data, soft_signals>>
wvars == <<tvars, dvars, ivars, kvars>>
vars == <<providers, cache, created, now, calls, invoked, printed,
          new_data, historical_data, anomaly,
          credential, verdict, lookups, position, earliest_date, sources, age,
          data_sources, signals, product_data, soft_signals>>

-----------------------------------------------------------------------------
(* Bounds of the model *)

MaxFetches == 2      \* adapter invocations in one behaviour
MaxClock == 24       \* the clock stops here
MaxCount == 12       \* largest count_total passed to detect_anomaly
MaxLast == 1         \* largest count_total in a history record
MaxHist == 2         \* longest history passed to detect_anomaly

(* Program constants *)

DefaultTtl == 168          \* BaseProvider.ttl_hours
TrustpilotTtl == 24        \* TrustpilotProvider.ttl_hours
TrustedShopsTtl == 168     \* TrustedShopsProvider, stamped on its Evidence
GoogleTtl == 24            \* GoogleSellerRatingsProvider.ttl_hours
AnomalyTtl == 1            \* ttl_hours of Evidence flagged as anomalous
RatingJump == 15           \* 1.5 stars, in tenths
GrowthLimit == 10          \* growth_rate above which a count is suspicious

-----------------------------------------------------------------------------
(* ProviderType, and the values of the enum members *)

TRUSTPILOT == "trustpilot"
TRUSTED_SHOPS == "trusted_shops"
GOOGLE_SELLER == "google_seller_ratings"
BAZAARVOICE == "bazaarvoice"

ProviderType == {TRUSTPILOT, TRUSTED_SHOPS, GOOGLE_SELLER, BAZAARVOICE}

(* the members in the order of the enum *)
EnumOrder == <<TRUSTPILOT, TRUSTED_SHOPS, GOOGLE_SELLER, BAZAARVOICE>>

Rank(t) == CHOOSE j \in DOMAIN EnumOrder : EnumOrder[j] = t

Entities == {"brand", "product"}

(* A provider object: its provider_type, the ttl_hours it stamps, and    *)
(* whether its fetch_brand_data / fetch_product_data return Evidence     *)
(* (TRUE) or raise NotImplementedError (FALSE).                          *)
TrustpilotProvider ==
    [type |-> TRUSTPILOT, ttl |-> TrustpilotTtl, brand |-> TRUE, product |-> FALSE]

TrustedShopsProvider ==
    [type |-> TRUSTED_SHOPS, ttl |-> TrustedShopsTtl, brand |-> TRUE, product |-> TRUE]

GoogleSellerRatingsProvider ==
    [type |-> GOOGLE_SELLER, ttl |-> GoogleTtl, brand |-> TRUE, product |-> TRUE]

(* BaseProvider is abstract and any subclass of it may be registered.    *)
(* This one is a subclass for an enum member that has no class in the    *)
(* module: it implements both fetch methods and keeps the ttl_hours of   *)
(* BaseProvider.__init__.                                                *)
BazaarvoiceProvider ==
    [type |-> BAZAARVOICE, ttl |-> DefaultTtl, brand |-> TRUE, product |-> TRUE]

(* The provider objects that get registered.  TrustedShopsProvider has  *)
(* the shape of GoogleSellerRatingsProvider (both scopes) and is left    *)
(* unregistered, which is the case `provider_type not in self.providers`.*)
ProviderClasses ==
    {TrustpilotProvider, GoogleSellerRatingsProvider, BazaarvoiceProvider}


-----------------------------------------------------------------------------
(* Inputs of the model *)

(* The enrich_* coroutines that may be running at once; a new call takes *)
(* the second slot only while the first is taken.                        *)
CallIds == {1, 2}
Ids == {"demo.shop"}       \* the domain or product id asked for
Steps == {12}              \* hours by which the clock advances

(* The data maps an adapter may return: a dict is a function whose       *)
(* DOMAIN is the set of its keys.                                        *)
FetchedData ==
    { [avg_rating |-> 46, count_total |-> 100],
      [avg_rating |-> 46, count_total |-> 2000] }

(* The explicit `providers` arguments tried *)
ExplicitLists == { <<TRUSTPILOT, GOOGLE_SELLER>> }

(* Optional[List[ProviderType]]: None is <<>>, a list l is <<l>> *)
None == <<>>
RequestLists == {None} \cup { <<l>> : l \in ExplicitLists }

-----------------------------------------------------------------------------
(* Helpers *)

Get(d, k, default) == IF k \in DOMAIN d THEN d[k] ELSE default

(* d[k] = v on a dict *)
Put(d, k, v) == [x \in DOMAIN d \cup {k} |-> IF x = k THEN v ELSE d[x]]

Abs(x) == IF x < 0 THEN -x ELSE x

Range(s) == { s[j] : j \in DOMAIN s }

EmptyDict == [x \in {} |-> 0]

(* the keys of self.providers, in insertion order *)
ProviderKeys == [j \in DOMAIN providers |-> providers[j].type]

Registered == Range(ProviderKeys)

(* self.providers[provider_type] *)
ProviderOf(t) == providers[CHOOSE j \in DOMAIN providers : providers[j].type = t]

(* f"{provider_type}:brand:{domain}", f"{provider_type}:product:{product_id}" *)
CacheKey(provider_type, entity, id) == <<provider_type, entity, id>>

IdleCall ==
    [status |-> "idle", entity |-> "brand", id |-> "demo.shop", unset |-> TRUE,
     providers |-> <<>>, i |-> 1, results |-> EmptyDict]

(* no TrustVerifier call has been made *)
VerifierAtRest == credential = <<>> /\ verdict = <<>>

(* calculate_domain_age has not been called *)
DomainAgeAtRest ==
    /\ lookups = <<>>
    /\ position = "idle"
    /\ earliest_date = <<>>
    /\ sources = <<>>
    /\ age = <<>>

(* compute_intent_signals has not been called *)
IntentsAtRest == data_sources = EmptyDict /\ signals = <<>>

KpiAtRest == product_data = EmptyDict /\ soft_signals = <<>>

-----------------------------------------------------------------------------
(* BaseProvider *)

(* validate_freshness with the comparison turned round *)
ValidateFreshnessFlipped(evidence) ==
    now - evidence.retrieved_at > evidence.ttl_hours

(* validate_freshness with <= for < *)
ValidateFreshnessInclusive(evidence) ==
    now - evidence.retrieved_at <= evidence.ttl_hours

(* validate_freshness: age < timedelta(hours=evidence.ttl_hours) *)
ValidateFreshness(evidence) ==
    now - evidence.retrieved_at < evidence.ttl_hours

(* detect_anomaly.  growth_rate = (new - last) / last > 10 with last > 0 *)
(* is compared without the division: new - last > 10 * last.             *)
DetectAnomaly(nd, hist) ==
    IF hist = <<>> THEN FALSE
    ELSE LET last == hist[Len(hist)]
             last_rating == Get(last, "avg_rating", 0)
             last_count == Get(last, "count_total", 0)
         IN  IF "avg_rating" \in DOMAIN nd
                  /\ Abs(nd["avg_rating"] - last_rating) > RatingJump
             THEN TRUE
             ELSE IF "count_total" \in DOMAIN nd
                       /\ last_count > 0
                       /\ nd["count_total"] - last_count > GrowthLimit * last_count
                  THEN TRUE
                  ELSE FALSE

-----------------------------------------------------------------------------
(* EnrichmentOrchestrator *)

(* _get_historical: "For now, return empty list" *)
GetHistorical(cache_key) == <<>>

(* enrich_product, providers is None *)
DefaultProductProviders == <<TRUSTED_SHOPS, GOOGLE_SELLER>>

(* enrich_brand, providers is None *)
DefaultBrandProviders == ProviderKeys

(* the Evidence an adapter builds *)
NewEvidence(provider, entity, id, data) ==
    [oid |-> created + 1, source |-> provider.type, entity |-> entity,
     source_id |-> id, retrieved_at |-> now, ttl_hours |-> provider.ttl,
     data |-> data]

(* enrich_brand, lines 435-439: the anomaly check on fresh Evidence *)
CheckAnomaly(provider, evidence, cache_key) ==
    IF DetectAnomaly(evidence.data, GetHistorical(cache_key))
    THEN [evidence EXCEPT !.data = Put(evidence.data, "anomaly_detected", TRUE),
                          !.ttl_hours = AnomalyTtl]
    ELSE evidence

(* what enrich_brand / enrich_product do to fresh Evidence before it is  *)
(* cached: enrich_product has no anomaly step                            *)
Prepare(entity, provider, evidence, cache_key) ==
    IF entity = "brand" THEN CheckAnomaly(provider, evidence, cache_key)
    ELSE evidence

(* `continue`: the loop goes on with the next provider, and the          *)
(* coroutine returns results once the list is exhausted                  *)
Continue(call) ==
    [call EXCEPT !.status = IF call.i + 1 > Len(call.providers)
                            THEN "done" ELSE "running",
                 !.i = call.i + 1]

(* no handler: the exception leaves the coroutine *)
Raise(call) == [call EXCEPT !.status = "raised"]

(* the loop without `except NotImplementedError` *)
OnUnsupportedRaises(call) == Raise(call)

(* except NotImplementedError: continue *)
OnUnsupported(call) == Continue(call)

(* the loop without `except Exception` *)
OnErrorRaises(call) == Raise(call)

(* except Exception as e: print(...); continue *)
OnError(call) == Continue(call)

(* results[provider_type.value] = evidence; the loop goes on *)
AddResult(call, provider_type, evidence) ==
    [Continue(call) EXCEPT
        !.results = Put(call.results, provider_type, evidence)]

(* the coroutine at the head of its body *)
Begin(entity, id, unset, plist) ==
    [status |-> IF plist = <<>> THEN "done" ELSE "running",
     entity |-> entity, id |-> id, unset |-> unset, providers |-> plist,
     i |-> 1, results |-> EmptyDict]

Current(c) == calls[c].providers[calls[c].i]

CurrentKey(c) == CacheKey(Current(c), calls[c].entity, calls[c].id)

(* lines 425-427: the cache holds fresh Evidence for the key *)
CacheFresh(cache_key) ==
    /\ cache_key \in DOMAIN cache
    /\ ValidateFreshness(cache[cache_key])

Init ==
    /\ providers = <<>>
    /\ cache = EmptyDict
    /\ created = 0
    /\ now = 0
    /\ calls = [c \in CallIds |-> IdleCall]
    /\ invoked = 0
    /\ printed = {}
    /\ new_data = <<>>
    /\ historical_data = <<>>
    /\ anomaly = <<>>
    /\ VerifierAtRest
    /\ DomainAgeAtRest
    /\ IntentsAtRest
    /\ KpiAtRest

(* register_provider: self.providers[provider.provider_type] = provider. *)
(* The providers are registered in the order of the enum, each type      *)
(* once, so the assignment adds a key at the end of the dict.            *)
RegisterProvider(p) ==
    /\ \A j \in DOMAIN providers : Rank(providers[j].type) < Rank(p.type)
    /\ providers' = Append(providers, p)
    /\ UNCHANGED <<cache, created, now, calls, invoked, printed>>
    /\ UNCHANGED <<avars, wvars>>

(* enrich_brand is called: lines 412-415 *)
EnrichBrand(c, domain, plist) ==
    /\ calls[c].status = "idle"
    /\ \A b \in CallIds : b < c => calls[b].status # "idle"
    /\ calls' = [calls EXCEPT ![c] =
         Begin("brand", domain, plist = None,
               IF plist = None THEN DefaultBrandProviders ELSE plist[1])]
    /\ UNCHANGED <<providers, cache, created, now, invoked, printed>>
    /\ UNCHANGED <<avars, wvars>>

(* enrich_product is called: lines 460-463 *)
EnrichProduct(c, product_id, plist) ==
    /\ calls[c].status = "idle"
    /\ \A b \in CallIds : b < c => calls[b].status # "idle"
    /\ calls' = [calls EXCEPT ![c] =
         Begin("product", product_id, plist = None,
               IF plist = None THEN DefaultProductProviders ELSE plist[1])]
    /\ UNCHANGED <<providers, cache, created, now, invoked, printed>>
    /\ UNCHANGED <<avars, wvars>>

(* if provider_type not in self.providers: continue *)
SkipUnregistered(c) ==
    /\ calls[c].status = "running"
    /\ Current(c) \notin Registered
    /\ calls' = [calls EXCEPT ![c] = Continue(calls[c])]
    /\ UNCHANGED <<providers, cache, created, now, invoked, printed>>
    /\ UNCHANGED <<avars, wvars>>

(* the cache holds fresh Evidence: it goes into the result map *)
CacheHit(c) ==
    /\ calls[c].status = "running"
    /\ Current(c) \in Registered
    /\ CacheFresh(CurrentKey(c))
    /\ calls' = [calls EXCEPT ![c] =
                   AddResult(calls[c], Current(c), cache[CurrentKey(c)])]
    /\ UNCHANGED <<providers, cache, created, now, invoked, printed>>
    /\ UNCHANGED <<avars, wvars>>

(* no fresh Evidence: await provider.fetch_*_data(...) *)
InvokeAdapter(c) ==
    /\ calls[c].status = "running"
    /\ Current(c) \in Registered
    /\ ~CacheFresh(CurrentKey(c))
    /\ invoked < MaxFetches
    /\ invoked' = invoked + 1
    /\ calls' = [calls EXCEPT ![c].status = "awaiting"]
    /\ UNCHANGED <<providers, cache, created, now, printed>>
    /\ UNCHANGED <<avars, wvars>>

(* the adapter returns Evidence: anomaly check, cache, result map *)
FetchReturns(c, data) ==
    /\ calls[c].status = "awaiting"
    /\ LET call == calls[c]
           provider == ProviderOf(Current(c))
           key == CurrentKey(c)
           evidence == Prepare(call.entity, provider,
                               NewEvidence(provider, call.entity, call.id, data), key)
       IN  /\ provider[call.entity]
           /\ created' = created + 1
           /\ cache' = Put(cache, key, evidence)
           /\ calls' = [calls EXCEPT ![c] = AddResult(call, Current(c), evidence)]
    /\ UNCHANGED <<providers, now, invoked, printed>>
    /\ UNCHANGED <<avars, wvars>>

(* the adapter raises NotImplementedError *)
FetchUnsupported(c) ==
    /\ calls[c].status = "awaiting"
    /\ ~ProviderOf(Current(c))[calls[c].entity]
    /\ calls' = [calls EXCEPT ![c] = OnUnsupported(calls[c])]
    /\ UNCHANGED <<providers, cache, created, now, invoked, printed>>
    /\ UNCHANGED <<avars, wvars>>

(* the handler of an Exception that also drops the entry of the key     *)
FetchFailsEvicts(c) ==
    /\ calls[c].status = "awaiting"
    /\ ProviderOf(Current(c))[calls[c].entity]
    /\ calls' = [calls EXCEPT ![c] = OnError(calls[c])]
    /\ printed' = printed \cup {Current(c)}
    /\ cache' = [k \in DOMAIN cache \ {CurrentKey(c)} |-> cache[k]]
    /\ UNCHANGED <<providers, created, now, invoked>>
    /\ UNCHANGED <<avars, wvars>>

(* the adapter raises another Exception: it is printed, and the loop     *)
(* goes on.  An adapter without the scope does nothing but raise         *)
(* NotImplementedError (lines 159, 320).                                 *)
FetchFails(c) ==
    /\ calls[c].status = "awaiting"
    /\ ProviderOf(Current(c))[calls[c].entity]
    /\ calls' = [calls EXCEPT ![c] = OnError(calls[c])]
    /\ printed' = printed \cup {Current(c)}
    /\ UNCHANGED <<providers, cache, created, now, invoked>>
    /\ UNCHANGED <<avars, wvars>>

(* the caller is through with the result map; the coroutine is gone *)
Release(c) ==
    /\ calls[c].status = "done"
    /\ calls' = [calls EXCEPT ![c] = IdleCall]
    /\ UNCHANGED <<providers, cache, created, now, invoked, printed>>
    /\ UNCHANGED <<avars, wvars>>

(* time passes *)
Tick(h) ==
    /\ now + h <= MaxClock
    /\ now' = now + h
    /\ UNCHANGED <<providers, cache, created, calls, invoked, printed>>
    /\ UNCHANGED <<avars, wvars>>

Next ==
    \/ \E p \in ProviderClasses : RegisterProvider(p)
    \/ \E c \in CallIds, d \in Ids, l \in RequestLists : EnrichBrand(c, d, l)
    \/ \E c \in CallIds, d \in Ids, l \in RequestLists : EnrichProduct(c, d, l)
    \/ \E c \in CallIds : SkipUnregistered(c)
    \/ \E c \in CallIds : CacheHit(c)
    \/ \E c \in CallIds : InvokeAdapter(c)
    \/ \E c \in CallIds, data \in FetchedData : FetchReturns(c, data)
    \/ \E c \in CallIds : FetchUnsupported(c)
    \/ \E c \in CallIds : FetchFails(c)
    \/ \E c \in CallIds : Release(c)
    \/ \E h \in Steps : Tick(h)

Spec == Init /\ [][Next]_vars

-----------------------------------------------------------------------------
(* A caller that writes to Evidence it was handed.  The result map holds *)
(* the object the cache holds (lines 428, 442-443), so the write is seen *)
(* through every reference to it.                                        *)

WriteTtl(evidence, oid, hours) ==
    IF evidence.oid = oid THEN [evidence EXCEPT !.ttl_hours = hours] ELSE evidence

CallerMutate(c, t, hours) ==
    /\ calls[c].status = "done"
    /\ t \in DOMAIN calls[c].results
    /\ calls[c].results[t].ttl_hours # hours
    /\ LET oid == calls[c].results[t].oid
       IN  /\ cache' = [k \in DOMAIN cache |-> WriteTtl(cache[k], oid, hours)]
           /\ calls' = [b \in CallIds |->
                 [calls[b] EXCEPT !.results =
                     [x \in DOMAIN calls[b].results |->
                         WriteTtl(calls[b].results[x], oid, hours)]]]
    /\ UNCHANGED <<providers, created, now, invoked, printed>>
    /\ UNCHANGED <<avars, wvars>>

CallerTtls == {1}

NextCaller ==
    \/ Next
    \/ \E c \in CallIds, t \in ProviderType, h \in CallerTtls : CallerMutate(c, t, h)

SpecCaller == Init /\ [][NextCaller]_vars

-----------------------------------------------------------------------------
(* detect_anomaly on its own: the arguments are drawn in the initial     *)
(* state and the function is applied to them.                            *)

RatingValues == {30, 46}

Dicts(ratings, counts) ==
    { EmptyDict }
      \cup { [avg_rating |-> r] : r \in ratings }
      \cup { [count_total |-> n] : n \in counts }
      \cup { [avg_rating |-> r, count_total |-> n] : r \in ratings, n \in counts }

NewDatas == Dicts(RatingValues, 0..MaxCount)

HistoryRecords == Dicts(RatingValues, 0..MaxLast)

RECURSIVE Histories(_)
Histories(n) ==
    IF n = 0 THEN { <<>> }
    ELSE Histories(n - 1)
           \cup { Append(h, r) : h \in { g \in Histories(n - 1) : Len(g) = n - 1 },
                                r \in HistoryRecords }

InitAnomaly ==
    /\ providers = <<>>
    /\ cache = EmptyDict
    /\ created = 0
    /\ now = 0
    /\ calls = [c \in CallIds |-> IdleCall]
    /\ invoked = 0
    /\ printed = {}
    /\ new_data \in NewDatas
    /\ historical_data \in Histories(MaxHist)
    /\ anomaly = <<>>
    /\ VerifierAtRest
    /\ DomainAgeAtRest
    /\ IntentsAtRest
    /\ KpiAtRest

CallDetectAnomaly ==
    /\ anomaly = <<>>
    /\ anomaly' = <<DetectAnomaly(new_data, historical_data)>>
    /\ UNCHANGED <<new_data, historical_data>>
    /\ UNCHANGED <<ovars, wvars>>

NextAnomaly == CallDetectAnomaly

SpecAnomaly == InitAnomaly /\ [][NextAnomaly]_vars

-----------------------------------------------------------------------------
(* Dates and times of the TrustVerifier (src/src/pipeline/                *)
(* trust_verifier.py) and of the credentials it is handed.                *)
(*                                                                        *)
(* A datetime is [t, aware]: t is the hour on the clock `now`, aware      *)
(* tells whether the object carries a UTC offset.  An ISO-8601 string is  *)
(* [t, suffix] with the suffix "" (no offset), "Z" or "+00:00".  The      *)
(* process runs with UTC as its local time, so that datetime.now() and    *)
(* datetime.utcnow() read the same clock.                                 *)
(*                                                                        *)
(* The outcome of a call is [raised, error, value]: either an exception   *)
(* left the call (error names its class), or <<v>> holds the value        *)
(* returned.  Confidences are counted in thousandths (950 is 0.95).       *)

Raised(error) == [raised |-> TRUE, error |-> error, value |-> <<>>]

Returned(v) == [raised |-> FALSE, error |-> "", value |-> <<v>>]

Max(a, b) == IF a > b THEN a ELSE b

Min(a, b) == IF a < b THEN a ELSE b

(* a dict without the keys ks *)
Drop(d, ks) == [x \in DOMAIN d \ ks |-> d[x]]

(* d.get(k): None, or <<the value>> *)
Optional(d, k) == IF k \in DOMAIN d THEN <<d[k]>> ELSE None

(* datetime.utcnow().isoformat() + "Z" *)
IsoFormatZ(t) == [t |-> t, suffix |-> "Z"]

(* s.replace('Z', '+00:00') *)
ReplaceZ(s) == IF s.suffix = "Z" THEN [s EXCEPT !.suffix = "+00:00"] ELSE s

(* datetime.fromisoformat(s).  A string without offset gives a naive     *)
(* datetime, one with +00:00 an aware one.  A trailing Z is read as UTC  *)
(* from Python 3.11 on and is a ValueError before.                        *)
FromIsoFormat(s, py311) ==
    IF s.suffix = "" THEN Returned([t |-> s.t, aware |-> FALSE])
    ELSE IF s.suffix = "+00:00" \/ py311
         THEN Returned([t |-> s.t, aware |-> TRUE])
         ELSE Raised("ValueError")

(* datetime.now() *)
DatetimeNow == [t |-> now, aware |-> FALSE]

(* a < b on two datetimes: "can't compare offset-naive and offset-aware  *)
(* datetimes" is a TypeError                                              *)
Before(a, b) ==
    IF a.aware # b.aware THEN Raised("TypeError") ELSE Returned(a.t < b.t)

-----------------------------------------------------------------------------
(* EnrichmentOrchestrator.generate_verifiable_credential *)

Context ==
    <<"https://www.w3.org/2018/credentials/v1",
      "https://agentic-commerce.org/axp/v0.1/context">>

(* ProviderEvidence.compute_hash: the SHA-256 of the canonical JSON of   *)
(* data, which is one value per data                                      *)
ComputeHash(evidence) == <<"sha256", evidence.data>>

GenerateVerifiableCredential(evidence, issuer_did) ==
    ("@context" :> Context)
    @@ ("type" :> <<"VerifiableCredential", "ThirdPartyEvidence">>)
    @@ ("issuer" :> issuer_did)
    @@ ("issuanceDate" :> IsoFormatZ(now))
    @@ ("expirationDate" :> IsoFormatZ(now + evidence.ttl_hours))
    @@ ("credentialSubject" :>
          [id |-> evidence.source_id, source |-> evidence.source,
           entity |-> evidence.entity, data |-> evidence.data,
           evidence_hash |-> ComputeHash(evidence),
           evidence_url |-> evidence.evidence_url])
    @@ ("proof" :>
          [type |-> "Ed25519Signature2020", created |-> IsoFormatZ(now),
           verificationMethod |-> <<issuer_did, "#key-1">>,
           proofPurpose |-> "assertionMethod"])

-----------------------------------------------------------------------------
(* TrustVerifier.verify_verifiable_credential *)

VC == "verifiable_credential"
API == "api"
SNAPSHOT == "snapshot"

VerificationResult(method, confidence, source_signature, snapshot_hash, anomalies, raw_data) ==
    [method |-> method, confidence |-> confidence, last_checked |-> now,
     source_signature |-> source_signature, snapshot_hash |-> snapshot_hash,
     anomalies |-> anomalies, raw_data |-> raw_data]

RequiredFields ==
    <<"@context", "type", "issuer", "issuanceDate", "credentialSubject", "proof">>

(* _verify_issuer *)
TrustedIssuers ==
    {"did:web:example.com", "did:key:z6MkhaXgBZD", "https://issuer.example.com"}

VerifyIssuer(issuer) == issuer \in TrustedIssuers

(* _verify_vc_proof: "Mock - in production verify JWS/LD-proof" *)
VerifyVcProof(vc_data) == "proof" \in DOMAIN vc_data

(* _check_vc_revocation: "Mock - in production check status endpoint" *)
CheckVcRevocation(status) == FALSE

(* line 235 *)
VcConfidence(anomalies) ==
    IF Len(anomalies) = 0 THEN 950 ELSE Max(200, 950 - Len(anomalies) * 200)

VerifyVerifiableCredential(vc_data, py311) ==
    LET missing == SelectSeq(RequiredFields, LAMBDA f : f \notin DOMAIN vc_data)
        structural == [j \in DOMAIN missing |-> <<"Missing required field", missing[j]>>]
        has_expiry == "expirationDate" \in DOMAIN vc_data
        expiry == FromIsoFormat(ReplaceZ(vc_data["expirationDate"]), py311)
        expired == Before(expiry.value[1], DatetimeNow)
    IN  IF missing # <<>>
        THEN Returned(VerificationResult(VC, 100, None, None, structural, vc_data))
        ELSE IF has_expiry /\ expiry.raised THEN Raised(expiry.error)
        ELSE IF has_expiry /\ expired.raised THEN Raised(expired.error)
        ELSE LET anomalies ==
                    (IF VerifyVcProof(vc_data) THEN <<>>
                     ELSE << <<"Proof verification failed">> >>)
                    \o (IF has_expiry /\ expired.value[1]
                        THEN << <<"Credential expired">> >> ELSE <<>>)
                    \o (IF "credentialStatus" \in DOMAIN vc_data
                           /\ CheckVcRevocation(vc_data["credentialStatus"])
                        THEN << <<"Credential revoked">> >> ELSE <<>>)
                    \o (IF VerifyIssuer(vc_data["issuer"]) THEN <<>>
                        ELSE << <<"Issuer not in trust registry">> >>)
             IN  Returned(VerificationResult(
                     VC, VcConfidence(anomalies),
                     Optional(vc_data["proof"], "jws"),
                     None, anomalies, vc_data))

-----------------------------------------------------------------------------
(* TrustVerifier.verify_review_source.  Ratings are counted in tenths of *)
(* a star and verified_ratio in hundredths.                              *)

TrustedApis == {"trustpilot", "google", "tripadvisor", "bbb", "capterra"}

(* str.lower() on the names used here *)
Lower(s) ==
    CASE s = "Trustpilot" -> "trustpilot"
      [] s = "ISO" -> "iso"
      [] OTHER -> s

(* both(dict1, dict2): all(...) over the common keys, a bool *)
Both(dict1, dict2) ==
    [type |-> "bool",
     value |-> \A k \in DOMAIN dict1 \cap DOMAIN dict2 :
                   \A d \in {dict1, dict2} : k \in DOMAIN d]

(* `k in x`: "argument of type 'bool' is not iterable" is a TypeError *)
In(k, x) ==
    IF x.type = "bool" THEN Raised("TypeError") ELSE Returned(k \in x.value)

(* _detect_review_anomalies *)
DetectReviewAnomalies(actual, expected) ==
    LET rating == In("avg_rating", Both(actual, expected))
        count == In("total_reviews", Both(actual, expected))
        diff == Abs(actual["avg_rating"] - expected["avg_rating"])
    IN  IF rating.raised THEN Raised(rating.error)
        ELSE IF rating.value[1] /\ "avg_rating" \notin DOMAIN actual \cap DOMAIN expected
             THEN Raised("KeyError")
        ELSE IF count.raised THEN Raised(count.error)
        ELSE IF count.value[1] /\ "total_reviews" \notin DOMAIN actual \cap DOMAIN expected
             THEN Raised("KeyError")
        ELSE Returned(
               (IF rating.value[1] /\ diff > 5
                THEN << <<"Rating discrepancy", diff>> >> ELSE <<>>)
               \o (IF count.value[1]
                      /\ 2 * actual["total_reviews"] > 3 * expected["total_reviews"]
                   THEN << <<"Suspicious review count increase",
                             actual["total_reviews"] - expected["total_reviews"]>> >>
                   ELSE <<>>)
               \o (IF "verified_ratio" \in DOMAIN actual /\ actual["verified_ratio"] < 30
                   THEN << <<"Low verified review ratio", actual["verified_ratio"]>> >>
                   ELSE <<>>))

RECURSIVE Sum(_)
Sum(s) == IF s = <<>> THEN 0 ELSE s[1] + Sum(Tail(s))

(* sum of (n * x - S)^2 over the series: n^2 (n - 1) times its variance *)
Spread(s) ==
    Sum([j \in DOMAIN s |-> (Len(s) * s[j] - Sum(s)) * (Len(s) * s[j] - Sum(s))])

(* _detect_time_anomalies.  count > mean + 3 * std and count > 3 * mean  *)
(* are compared without the divisions and the square root.               *)
DetectTimeAnomalies(history) ==
    LET daily_counts == [j \in DOMAIN history |-> history[j]["count"]]
        n == Len(daily_counts)
        total == Sum(daily_counts)
        Spike(j) ==
            /\ Spread(daily_counts) > 0
            /\ n * daily_counts[j] > total
            /\ (n - 1) * (n * daily_counts[j] - total) * (n * daily_counts[j] - total)
                 > 9 * Spread(daily_counts)
        days == SelectSeq([j \in 1..n |-> j], Spike)
        cluster_days == Cardinality({ j \in 1..n : n * daily_counts[j] > 3 * total })
    IN  IF n < 3 THEN <<>>
        ELSE [j \in DOMAIN days |-> <<"Review spike", days[j] - 1, daily_counts[days[j]]>>]
             \o (IF 10 * cluster_days > n
                 THEN << <<"Review clustering detected", cluster_days>> >> ELSE <<>>)

(* _detect_distribution_anomalies on the five bins '1'..'5', given as    *)
(* the sequence of their counts.  stdev(proportions) < 0.05 is compared  *)
(* as variance < 1/400, without the divisions and the square root.       *)
DetectDistributionAnomalies(counts) ==
    LET total == Sum(counts)
        m == Len(counts)
    IN  IF total = 0 THEN <<>>
        ELSE (IF Spread(counts) <= (m * m * (m - 1) * total * total - 1) \div 400
              THEN << <<"Unnaturally uniform rating distribution">> >> ELSE <<>>)
             \o (IF 2 * counts[3] < counts[1] /\ 2 * counts[3] < counts[5]
                 THEN << <<"Bimodal distribution suggests manipulation">> >> ELSE <<>>)
             \o (IF 10 * counts[5] > 7 * total
                 THEN << <<"Excessive 5-star ratings", counts[5]>> >> ELSE <<>>)

(* Fixed point: Unit stands for 1.0 *)
Unit == 4096

(* the fraction bits of log2(x / Unit) for Unit <= x < 2 * Unit, by      *)
(* repeated squaring: `bit` is the weight of the bit found next          *)
RECURSIVE Log2Fraction(_, _)
Log2Fraction(x, bit) ==
    IF bit = 0 THEN 0
    ELSE LET sq == (x * x) \div Unit
         IN  IF sq >= 2 * Unit
             THEN bit + Log2Fraction(sq \div 2, bit \div 2)
             ELSE Log2Fraction(sq, bit \div 2)

(* Unit * log2(n) for n >= 1: halve n down to [1, 2), one Unit a halving *)
RECURSIVE Log2(_, _)
Log2(n, d) ==
    IF n >= 2 * d THEN Unit + Log2(n, 2 * d)
    ELSE Log2Fraction((n * Unit) \div d, Unit \div 2)

(* min(1.0, math.log(n + 1) / math.log(1000)), in thousandths *)
SampleFactor(n) == Min(1000, (1000 * Log2(n + 1, 1)) \div Log2(1000, 1))

RECURSIVE Decay(_, _)
Decay(c, n) == IF n = 0 THEN c ELSE Decay((c * 9) \div 10, n - 1)

(* _calculate_confidence, in thousandths; the products are carried in    *)
(* hundred-thousandths                                                   *)
CalculateConfidence(anomalies, data) ==
    LET base == Decay(80000, Len(anomalies))
        verified == IF "verified_ratio" \in DOMAIN data
                    THEN (base * (700 + 3 * data["verified_ratio"])) \div 1000
                    ELSE base
        sized == IF "total_reviews" \in DOMAIN data
                 THEN (verified * (4000 + SampleFactor(data["total_reviews"]))) \div 5000
                 ELSE verified
    IN  Min(1000, Max(100, sized \div 100))

(* _hash_snapshot: the SHA-256 of json.dumps(data, sort_keys=True) *)
HashSnapshot(data) == <<"sha256", data>>

(* _generate_api_signature: the first 16 hex digits of a SHA-256 *)
GenerateApiSignature(data) == <<"sha256[:16]", data>>

(* verify_review_source, after the answers of the API (`api`, an outcome) *)
(* and of the snapshot fetch are known                                    *)
VerifyReviewSource(source, expected_stats, api, snapshot_data) ==
    LET trusted == Lower(source) \in TrustedApis
        compared == DetectReviewAnomalies(api.value[1], expected_stats)
        api_fails == api.raised \/ compared.raised
        anomalies == IF trusted THEN << <<"API verification failed">> >> ELSE <<>>
        found == DetectReviewAnomalies(snapshot_data, expected_stats)
        all == anomalies \o found.value[1]
                 \o (IF "history" \in DOMAIN snapshot_data
                     THEN DetectTimeAnomalies(snapshot_data["history"]) ELSE <<>>)
                 \o (IF "rating_distribution" \in DOMAIN snapshot_data
                     THEN DetectDistributionAnomalies(snapshot_data["rating_distribution"])
                     ELSE <<>>)
    IN  IF trusted /\ ~api_fails
        THEN Returned(VerificationResult(
                 API, IF Len(compared.value[1]) = 0 THEN 950 ELSE 700,
                 <<GenerateApiSignature(api.value[1])>>, None,
                 compared.value[1], api.value[1]))
        ELSE IF found.raised THEN Raised(found.error)
        ELSE Returned(VerificationResult(
                 SNAPSHOT, CalculateConfidence(all, snapshot_data),
                 None, <<HashSnapshot(snapshot_data)>>, all, snapshot_data))

-----------------------------------------------------------------------------
(* TrustVerifier.verify_certification.  Hour 0 of the clock is           *)
(* 2025-06-30T00:00, the valid_until of the Fairtrade validator.         *)

FairtradeValidUntil == 0      \* '2025-06-30'
OrganicValidUntil == 4416     \* '2025-12-31'
IsoValidUntil == 4440         \* '2026-01-01'
SnapshotExpiry == 4440        \* '2026-01-01T00:00:00Z'

(* the _validate_*_cert methods: (is_valid, details) *)
ValidateIsoCert(cert_id, issuer) ==
    [is_valid |-> TRUE,
     details |-> [signature |-> "iso_sig_123",
                  valid_until |-> [t |-> IsoValidUntil, suffix |-> ""]]]

ValidateOrganicCert(cert_id, issuer) ==
    [is_valid |-> TRUE,
     details |-> [signature |-> "organic_sig_456",
                  valid_until |-> [t |-> OrganicValidUntil, suffix |-> ""]]]

ValidateFairtradeCert(cert_id, issuer) ==
    [is_valid |-> TRUE,
     details |-> [signature |-> "ft_sig_789",
                  valid_until |-> [t |-> FairtradeValidUntil, suffix |-> ""]]]

ValidateBcorpCert(cert_id, issuer) ==
    [is_valid |-> TRUE, details |-> [signature |-> "bcorp_sig_012", score |-> 855]]

(* self.certification_validators *)
CertificationValidators == {"iso", "organic", "fairtrade", "bcorp"}

Validate(cert_type, cert_id, issuer) ==
    CASE cert_type = "iso" -> ValidateIsoCert(cert_id, issuer)
      [] cert_type = "organic" -> ValidateOrganicCert(cert_id, issuer)
      [] cert_type = "fairtrade" -> ValidateFairtradeCert(cert_id, issuer)
      [] cert_type = "bcorp" -> ValidateBcorpCert(cert_id, issuer)

(* _fetch_certification_data *)
FetchCertificationData(cert_type, cert_id, issuer) ==
    [cert_type |-> cert_type, cert_id |-> cert_id, issuer |-> issuer,
     expiry_date |-> [t |-> SnapshotExpiry, suffix |-> "Z"], status |-> "active"]

(* _check_revocation: "Mock - in production check revocation lists" *)
CheckRevocation(cert_type, cert_id) == FALSE

VerifyCertification(cert_type, cert_id, issuer, py311) ==
    LET checked == Validate(Lower(cert_type), cert_id, issuer)
        cert_data == FetchCertificationData(cert_type, cert_id, issuer)
        has_expiry == "expiry_date" \in DOMAIN cert_data
        expiry == FromIsoFormat(cert_data["expiry_date"], py311)
        expired == Before(expiry.value[1], DatetimeNow)
    IN  IF Lower(cert_type) \in CertificationValidators
        THEN Returned(VerificationResult(
                 API, IF checked.is_valid THEN 950 ELSE 200,
                 Optional(checked.details, "signature"), None,
                 IF checked.is_valid THEN <<>>
                 ELSE << <<"Certification validation failed", checked.details>> >>,
                 checked.details))
        ELSE IF has_expiry /\ expiry.raised THEN Raised(expiry.error)
        ELSE IF has_expiry /\ expired.raised THEN Raised(expired.error)
        ELSE LET anomalies ==
                    (IF has_expiry /\ expired.value[1]
                     THEN << <<"Certification expired">> >> ELSE <<>>)
                    \o (IF CheckRevocation(cert_type, cert_id)
                        THEN << <<"Certification revoked">> >> ELSE <<>>)
             IN  Returned(VerificationResult(
                     SNAPSHOT, IF Len(anomalies) = 0 THEN 700 ELSE 300,
                     None, <<HashSnapshot(cert_data)>>, anomalies, cert_data))

-----------------------------------------------------------------------------
(* Calls of the TrustVerifier.  `verdict` keeps the last call: its name, *)
(* its arguments, the hour it was made and its outcome.                  *)

(* the Evidence credentials are issued for *)
IssuableTtls == {1, 24}

IssuableEvidence ==
    { [oid |-> 0, source |-> TRUSTPILOT, entity |-> "brand",
       source_id |-> "trustpilot:brand:demo.shop", retrieved_at |-> 0,
       evidence_url |-> "https://www.trustpilot.com/review/demo.shop",
       ttl_hours |-> h, data |-> [avg_rating |-> 46, count_total |-> 100]]
      : h \in IssuableTtls }

Issuers == {"did:web:example.com", "did:web:unknown.example"}

(* the credential of example_verification, lines 558-571 *)
ExampleCredential ==
    ("@context" :> <<"https://www.w3.org/2018/credentials/v1">>)
    @@ ("type" :> <<"VerifiableCredential", "ProductCertification">>)
    @@ ("issuer" :> "did:web:example.com")
    @@ ("issuanceDate" :> [t |-> 0, suffix |-> "Z"])
    @@ ("credentialSubject" :> [id |-> "sku_123", certification |-> "Organic"])
    @@ ("proof" :> [type |-> "JsonWebSignature2020", jws |-> "eyJhbGc..."])

(* the required fields a received credential may lack *)
MissingFields ==
    { {RequiredFields[j]} : j \in DOMAIN RequiredFields } \cup { Range(RequiredFields) }

(* the expirationDate strings a received credential may carry *)
ExpirationDates ==
    { [t |-> 0, suffix |-> ""], [t |-> 48, suffix |-> ""], [t |-> 48, suffix |-> "Z"] }

With(d, k, values) == { d } \cup { Put(d, k, v) : v \in values }

(* credentials with every required field *)
WholeCredentials ==
    UNION { With(w, "credentialStatus", { [id |-> "status/1"] }) :
        w \in UNION { With(u, "expirationDate", ExpirationDates) :
                 u \in { Put(ExampleCredential, "issuer", d) : d \in Issuers } } }

(* credentials that lack required fields *)
BrokenCredentials ==
    { Drop(v, m) :
        v \in { ExampleCredential,
                Put(Put(ExampleCredential, "issuer", "did:web:unknown.example"),
                    "expirationDate", [t |-> 48, suffix |-> "Z"]) },
        m \in MissingFields }

ReceivedCredentials == WholeCredentials \cup BrokenCredentials

(* a call and its outcome *)
CallRecord(op, args, out) == [op |-> op, args |-> args, at |-> now, out |-> out]

(* generate_verifiable_credential is called and the credential kept *)
IssueCredential(evidence, issuer_did) ==
    /\ credential' = <<GenerateVerifiableCredential(evidence, issuer_did)>>
    /\ UNCHANGED <<verdict, ovars, avars, dvars, ivars, kvars>>

(* a credential arrives from elsewhere *)
ReceiveCredential(vc_data) ==
    /\ credential' = <<vc_data>>
    /\ UNCHANGED <<verdict, ovars, avars, dvars, ivars, kvars>>

(* verify_verifiable_credential on the credential at hand *)
VerifyCredential(py311) ==
    /\ credential # <<>>
    /\ verdict' = <<CallRecord("verify_verifiable_credential", credential[1],
                               VerifyVerifiableCredential(credential[1], py311))>>
    /\ UNCHANGED <<credential, ovars, avars, dvars, ivars, kvars>>

(* _fetch_via_api: "Mock implementation" *)
FetchViaApi ==
    [avg_rating |-> 45, total_reviews |-> 1234, verified_ratio |-> 85,
     last_updated |-> [t |-> now, suffix |-> ""]]

(* _fetch_snapshot: "Mock implementation" *)
FetchSnapshot ==
    [avg_rating |-> 45, total_reviews |-> 1234, verified_ratio |-> 85,
     rating_distribution |-> <<10, 20, 50, 300, 854>>,
     snapshot_timestamp |-> [t |-> now, suffix |-> ""]]

(* what the platform may report instead *)
ReportedStats == [avg_rating |-> 49, total_reviews |-> 2400, verified_ratio |-> 25]

(* the answers of the API: the mock's, other statistics, or a failure *)
ApiAnswers ==
    { Returned(FetchViaApi), Returned(ReportedStats), Raised("ConnectionError") }

SnapshotAnswers == { FetchSnapshot, ReportedStats }

ReviewSources == {"Trustpilot", "yelp"}

ExpectedStats == { EmptyDict, [avg_rating |-> 45, total_reviews |-> 1200] }

(* verify_review_source *)
VerifyReview(source, expected_stats, api, snapshot_data) ==
    /\ verdict' = <<CallRecord("verify_review_source",
                               [source |-> source, expected_stats |-> expected_stats,
                                api |-> api, snapshot_data |-> snapshot_data],
                               VerifyReviewSource(source, expected_stats, api,
                                                  snapshot_data))>>
    /\ UNCHANGED <<credential, ovars, avars, dvars, ivars, kvars>>

CertTypes == {"iso", "ISO", "organic", "fairtrade", "bcorp", "gots"}

(* verify_certification *)
VerifyCert(cert_type, py311) ==
    /\ verdict' = <<CallRecord("verify_certification",
                               [cert_type |-> cert_type, cert_id |-> "cert-1",
                                issuer |-> "SGS"],
                               VerifyCertification(cert_type, "cert-1", "SGS", py311))>>
    /\ UNCHANGED <<credential, ovars, avars, dvars, ivars, kvars>>

NextVerifier ==
    \/ \E e \in IssuableEvidence, d \in Issuers : IssueCredential(e, d)
    \/ \E v \in ReceivedCredentials : ReceiveCredential(v)
    \/ \E b \in BOOLEAN : VerifyCredential(b)
    \/ \E s \in ReviewSources, x \in ExpectedStats, a \in ApiAnswers,
          d \in SnapshotAnswers : VerifyReview(s, x, a, d)
    \/ \E t \in CertTypes, b \in BOOLEAN : VerifyCert(t, b)
    \/ \E h \in Steps : Tick(h)

SpecVerifier == Init /\ [][NextVerifier]_vars

-----------------------------------------------------------------------------
(* TrustVerifier.calculate_domain_age.  The four lookups answer with     *)
(* naive datetimes within a few years of the clock; what each answers is *)
(* drawn in the initial state, and the call runs statement by statement. *)

(* what a lookup answers: it raises, it returns None (or, for WHOIS, an  *)
(* empty creation_date), or it returns the datetimes in `dates` (one; a  *)
(* list of them for WHOIS)                                               *)
Fails == [kind |-> "raise", dates |-> <<>>]
Nothing == [kind |-> "none", dates |-> <<>>]
Found(dates) == [kind |-> "date", dates |-> dates]

(* the datetimes answered, in hours on the clock: 400 days ago, 100 days *)
(* ago, and two days ahead                                               *)
LookupDates == {-9600, -2400, 48}

LookupAnswers == {Fails, Nothing} \cup { Found(<<d>>) : d \in LookupDates }

(* w.creation_date may be a list, of which creation[0] is taken *)
WhoisAnswers == LookupAnswers \cup { Found(<<-2400, -9600>>) }

LookupNames == <<"whois", "certificate_transparency", "dns_history", "internet_archive">>

(* `not earliest_date or date < earliest_date` with > for < *)
EarlierFlipped(date, earliest) == earliest = None \/ date > earliest[1]

(* `not earliest_date or date < earliest_date` *)
Earlier(date, earliest) == earliest = None \/ date < earliest[1]

(* one try block of lines 274-299: the lookup `name` answered `answer` *)
TakeLookup(name, answer) ==
    IF answer.kind = "date" /\ Earlier(answer.dates[1], earliest_date)
    THEN /\ earliest_date' = <<answer.dates[1]>>
         /\ sources' = Append(sources, name)
    ELSE UNCHANGED <<earliest_date, sources>>

(* lines 262-272: the WHOIS lookup *)
LookupWhois ==
    /\ position = "whois"
    /\ IF lookups["whois"].kind = "date"
       THEN /\ earliest_date' = <<lookups["whois"].dates[1]>>
            /\ sources' = Append(sources, "whois")
       ELSE UNCHANGED <<earliest_date, sources>>
    /\ position' = "certificate_transparency"
    /\ UNCHANGED <<lookups, age, ovars, avars, tvars, ivars, kvars>>

(* lines 275-281: _get_earliest_cert *)
LookupCertificateTransparency ==
    /\ position = "certificate_transparency"
    /\ TakeLookup("certificate_transparency", lookups["certificate_transparency"])
    /\ position' = "dns_history"
    /\ UNCHANGED <<lookups, age, ovars, avars, tvars, ivars, kvars>>

(* lines 284-290: _get_dns_first_seen *)
LookupDnsHistory ==
    /\ position = "dns_history"
    /\ TakeLookup("dns_history", lookups["dns_history"])
    /\ position' = "internet_archive"
    /\ UNCHANGED <<lookups, age, ovars, avars, tvars, ivars, kvars>>

(* lines 293-299: _get_archive_first_seen *)
LookupInternetArchive ==
    /\ position = "internet_archive"
    /\ TakeLookup("internet_archive", lookups["internet_archive"])
    /\ position' = "score"
    /\ UNCHANGED <<lookups, age, ovars, avars, tvars, ivars, kvars>>

(* Unit * e^(num / den) by its series, for |num / den| up to about 2 *)
RECURSIVE ExpSeries(_, _, _, _)
ExpSeries(term, num, den, k) ==
    IF k > 16 THEN 0
    ELSE term + ExpSeries((term * num) \div (den * k), num, den, k + 1)

Exp(num, den) == ExpSeries(Unit, num, den, 1)

(* (a - b).days for datetimes in hours: timedelta normalizes to whole    *)
(* days below the difference                                             *)
Days(hours) == hours \div 24

(* lines 302-316, in thousandths *)
AgeScore(age_days) == Min(1000 - (1000 * Exp(-age_days, 365)) \div Unit, 600)

DomainAgeResult(domain, earliest, age_days, age_score, confidence, srcs) ==
    [domain |-> domain, earliest_date |-> earliest, age_days |-> age_days,
     age_score |-> age_score, confidence |-> confidence, sources |-> srcs]

(* lines 302-325: the age, the score and the result *)
ScoreDomainAge ==
    /\ position = "score"
    /\ age' = <<Returned(
           IF earliest_date # None
           THEN DomainAgeResult("example.com", earliest_date[1],
                                Days(now - earliest_date[1]),
                                AgeScore(Days(now - earliest_date[1])),
                                Min(1000, (1000 * Len(sources)) \div 2), sources)
           ELSE DomainAgeResult("example.com", now, 0, 0, 0, sources))>>
    /\ position' = "done"
    /\ UNCHANGED <<lookups, earliest_date, sources, ovars, avars, tvars, ivars, kvars>>

InitDomainAge ==
    /\ providers = <<>>
    /\ cache = EmptyDict
    /\ created = 0
    /\ now = 0
    /\ calls = [c \in CallIds |-> IdleCall]
    /\ invoked = 0
    /\ printed = {}
    /\ new_data = <<>>
    /\ historical_data = <<>>
    /\ anomaly = <<>>
    /\ VerifierAtRest
    /\ IntentsAtRest
    /\ KpiAtRest
    /\ lookups \in { ("whois" :> w) @@ ("certificate_transparency" :> c)
                       @@ ("dns_history" :> d) @@ ("internet_archive" :> a) :
                     w \in WhoisAnswers, c \in LookupAnswers,
                     d \in LookupAnswers, a \in LookupAnswers }
    /\ position = "whois"
    /\ earliest_date = None
    /\ sources = <<>>
    /\ age = <<>>

NextDomainAge ==
    \/ LookupWhois
    \/ LookupCertificateTransparency
    \/ LookupDnsHistory
    \/ LookupInternetArchive
    \/ ScoreDomainAge

SpecDomainAge == InitDomainAge /\ [][NextDomainAge]_vars

-----------------------------------------------------------------------------
(* IntentExtractor (src/src/pipeline/intent_extractor.py).  Weights and  *)
(* scores are counted in thousandths (300 is 0.3).  A string is known by *)
(* the keywords and phrases that occur in its lower-case form.           *)

(* IntentType, in the order of the enum *)
IntentType ==
    <<"gift", "daily_commute", "hobby", "professional_use", "travel", "fashion",
      "sport", "basketball", "running", "outdoor", "luxury", "value">>

(* the strings the model uses, and what `kw in s.lower()` finds in them *)
Mentions(s) ==
    CASE s = "A perfect birthday gift" -> {"gift", "birthday"}
      [] s = "Great for training at the gym" -> {"training", "gym"}
      [] s = "Running Guide" -> {"running"}
      [] s = "Holiday Gift Guide" -> {"gift", "holiday"}
      [] s = "running shoes" -> {"running"}
      [] OTHER -> {}

(* defaultdict(float): scores[intent] += w *)
Add(scores, intent, w) == Put(scores, intent, Get(scores, intent, 0) + w)

(* the additions <<intent, w>> of a list, made in order *)
RECURSIVE AddAll(_, _)
AddAll(scores, additions) ==
    IF additions = <<>> THEN scores
    ELSE AddAll(Add(scores, additions[1][1], additions[1][2]), Tail(additions))

RECURSIVE Flatten(_)
Flatten(lists) == IF lists = <<>> THEN <<>> ELSE lists[1] \o Flatten(Tail(lists))

(* for intent in scores: scores[intent] = scores[intent] * num / den *)
Scale(scores, num, den) == [k \in DOMAIN scores |-> (scores[k] * num) \div den]

(* d.get(k) in a condition, for a flag *)
Truthy(d, k) == k \in DOMAIN d /\ d[k]

(* _is_holiday_season, on (month, day) *)
NotAfter(a, b) == a[1] < b[1] \/ (a[1] = b[1] /\ a[2] <= b[2])

Within(md, from, to) == NotAfter(from, md) /\ NotAfter(md, to)

IsHolidaySeason(date) ==
    LET month_day == <<date[2], date[3]>>
    IN  \/ Within(month_day, <<11, 15>>, <<12, 31>>)
        \/ Within(month_day, <<2, 1>>, <<2, 14>>)
        \/ Within(month_day, <<5, 1>>, <<5, 31>>)
        \/ Within(month_day, <<6, 1>>, <<6, 20>>)

(* _analyze_bundle *)
AnalyzeBundle(items) ==
    LET categories == { Get(items[j], "category", "") : j \in DOMAIN items }
    IN  (IF {"running_shoes", "running_socks"} \subseteq categories
         THEN << <<"running", 800>>, <<"sport", 500>> >> ELSE <<>>)
        \o (IF {"dress_shoes", "dress_shirt"} \subseteq categories
            THEN << <<"professional_use", 700>> >> ELSE <<>>)

(* extract_from_orders: what one order adds *)
OrderAdditions(order) ==
    (IF Truthy(order, "gift_wrap") \/ Get(order, "gift_message", "") # ""
     THEN << <<"gift", 1000>> >> ELSE <<>>)
    \o (IF IsHolidaySeason(order["created_at"]) THEN << <<"gift", 300>> >> ELSE <<>>)
    \o (IF "items" \in DOMAIN order THEN AnalyzeBundle(order["items"]) ELSE <<>>)

ExtractFromOrders(orders) ==
    IF orders = <<>> THEN Returned(EmptyDict)
    ELSE IF \E j \in DOMAIN orders : "created_at" \notin DOMAIN orders[j]
         THEN Raised("KeyError")
         ELSE Returned(Scale(
                  AddAll(EmptyDict,
                         Flatten([j \in DOMAIN orders |-> OrderAdditions(orders[j])])),
                  1, Len(orders)))

(* extract_from_returns: what one return adds *)
ReturnAdditions(return_item) ==
    LET reason == Get(return_item, "reason", "")
    IN  CASE reason = "size_issue" -> << <<"fashion", 100>>, <<"sport", 100>> >>
          [] reason = "quality_expectation" -> << <<"professional_use", 200>> >>
          [] reason = "changed_mind" -> << <<"fashion", 150>> >>
          [] OTHER -> <<>>

ExtractFromReturns(returns) ==
    Returned(AddAll(EmptyDict,
                    Flatten([j \in DOMAIN returns |-> ReturnAdditions(returns[j])])))

(* extract_from_behavior: what one event adds *)
EventAdditions(event) ==
    LET event_type == event["type"]
    IN  CASE event_type = "view_size_guide" -> << <<"fashion", 300>>, <<"sport", 200>> >>
          [] event_type = "view_3d" -> << <<"fashion", 200>>, <<"luxury", 100>> >>
          [] event_type = "use_configurator"
               -> << <<"professional_use", 300>>, <<"hobby", 200>> >>
          [] event_type = "compare_products" -> << <<"value", 200>> >>
          [] event_type = "read_guide" /\ "guide_type" \in DOMAIN event
               -> IF "running" \in Mentions(event["guide_type"])
                  THEN << <<"running", 500>> >>
                  ELSE IF "basketball" \in Mentions(event["guide_type"])
                       THEN << <<"basketball", 500>> >>
                       ELSE <<>>
          [] OTHER -> <<>>

(* the integer square root *)
RECURSIVE SqrtBetween(_, _, _)
SqrtBetween(n, low, high) ==
    IF low = high THEN low
    ELSE LET mid == (low + high + 1) \div 2
         IN  IF mid * mid <= n THEN SqrtBetween(n, mid, high)
             ELSE SqrtBetween(n, low, mid - 1)

(* 1000 * math.sqrt(n) *)
Sqrt(n) == SqrtBetween(n * 1000000, 0, 1000 * n)

ExtractFromBehavior(events) ==
    IF \E j \in DOMAIN events : "type" \notin DOMAIN events[j]
    THEN Raised("KeyError")
    ELSE LET intent_scores ==
                 AddAll(EmptyDict,
                        Flatten([j \in DOMAIN events |-> EventAdditions(events[j])]))
         IN  Returned(IF Len(events) > 0
                      THEN Scale(intent_scores, 1000, Sqrt(Len(events)))
                      ELSE intent_scores)

(* extract_from_text: intent_keywords, in the order of the dict *)
IntentKeywords ==
    << <<"gift", {"gift", "present", "birthday", "christmas", "anniversary"}>>,
       <<"sport", {"running", "training", "workout", "gym", "athletic"}>>,
       <<"professional_use", {"work", "professional", "office", "business", "daily"}>>,
       <<"travel", {"travel", "trip", "vacation", "flight", "luggage"}>>,
       <<"fashion", {"style", "look", "outfit", "trendy", "fashion"}>>,
       <<"daily_commute", {"commute", "daily", "everyday", "walking", "comfortable"}>> >>

(* _get_text_weight *)
GetTextWeight(text_item) ==
    LET base_weight == IF Truthy(text_item, "verified_purchase") THEN 1500 ELSE 1000
        source == Get(text_item, "source", "review")
    IN  IF source = "support_ticket" THEN (base_weight * 8) \div 10
        ELSE IF source = "q_and_a" THEN (base_weight * 11) \div 10
        ELSE base_weight

(* lines 167-174: what the keywords of one text item add *)
KeywordAdditions(text_item) ==
    LET content == Mentions(Get(text_item, "text", ""))
        Matches(j) == Cardinality(IntentKeywords[j][2] \cap content)
        hits == SelectSeq([j \in DOMAIN IntentKeywords |-> j], LAMBDA j : Matches(j) > 0)
    IN  [h \in DOMAIN hits |->
           <<IntentKeywords[hits[h]][1], Matches(hits[h]) * GetTextWeight(text_item)>>]

(* the keys of a dict in some order: dicts keep the order of insertion,  *)
(* which the model does not record                                       *)
KeysOf(d) ==
    CHOOSE s \in [1..Cardinality(DOMAIN d) -> DOMAIN d] : Range(s) = DOMAIN d

(* lines 179-180: what the intent_probs of one text item add *)
ProbAdditions(text_item) ==
    LET probs == text_item["intent_probs"]
        keys == KeysOf(probs)
    IN  [j \in DOMAIN keys |->
           <<keys[j], (probs[keys[j]] * GetTextWeight(text_item)) \div 1000>>]

ExtractFromText(texts) ==
    LET with_probs == texts # <<>> /\ "intent_probs" \in DOMAIN texts[1]
        keyword_scores ==
            AddAll(EmptyDict,
                   Flatten([j \in DOMAIN texts |-> KeywordAdditions(texts[j])]))
        intent_scores ==
            IF with_probs
            THEN AddAll(keyword_scores,
                        Flatten([j \in DOMAIN texts |-> ProbAdditions(texts[j])]))
            ELSE keyword_scores
        total_weight == Sum([j \in DOMAIN texts |-> GetTextWeight(texts[j])])
    IN  IF with_probs /\ \E j \in DOMAIN texts : "intent_probs" \notin DOMAIN texts[j]
        THEN Raised("KeyError")
        ELSE Returned(IF total_weight > 0
                      THEN Scale(intent_scores, 1000, total_weight)
                      ELSE intent_scores)

(* intent_type.value.replace('_', ' ') *)
Spaced(t) ==
    CASE t = "daily_commute" -> "daily commute"
      [] t = "professional_use" -> "professional use"
      [] OTHER -> t

(* extract_from_channel: what one acquisition adds *)
AcquisitionAdditions(acq) ==
    LET campaign == Mentions(Get(acq, "utm_campaign", ""))
        term == Get(acq, "utm_term", "")
        named == SelectSeq(IntentType, LAMBDA t : Spaced(t) \in Mentions(term))
    IN  (IF "gift" \in campaign \/ "holiday" \in campaign THEN << <<"gift", 1000>> >>
         ELSE IF "sport" \in campaign \/ "athletic" \in campaign
              THEN << <<"sport", 1000>> >>
         ELSE IF "professional" \in campaign \/ "business" \in campaign
              THEN << <<"professional_use", 1000>> >>
         ELSE <<>>)
        \o (IF term # "" THEN [j \in DOMAIN named |-> <<named[j], 500>>] ELSE <<>>)

ExtractFromChannel(acquisitions) ==
    LET intent_scores ==
            AddAll(EmptyDict,
                   Flatten([j \in DOMAIN acquisitions |->
                              AcquisitionAdditions(acquisitions[j])]))
    IN  Returned(IF Len(acquisitions) > 0
                 THEN Scale(intent_scores, 1, Len(acquisitions))
                 ELSE intent_scores)

(* self.weights, and the halved cart weight of the returns (line 257) *)
TextWeight == 400
BehaviorWeight == 250
CartWeight == 250
ChannelWeight == 100
RecencyHalfLifeDays == 90

(* self.dirichlet_alpha = 0.5 against pseudo-counts in ten-thousandths *)
DirichletAlpha == 5000

(* _compute_time_weight, in Units; the series serves days_ago up to 180 *)
ComputeTimeWeight(days_ago) == Exp(-days_ago, RecencyHalfLifeDays)

(* lines 253-264: the score of one intent, in ten-thousandths, from the   *)
(* dicts of the orders, returns, behavior, text and channel extractions   *)
MixedScore(intent, intents, since_days) ==
    LET score == CartWeight * Get(intents[1], intent, 0)
                 + (CartWeight * Get(intents[2], intent, 0)) \div 2
                 + BehaviorWeight * Get(intents[3], intent, 0)
                 + TextWeight * Get(intents[4], intent, 0)
                 + ChannelWeight * Get(intents[5], intent, 0)
    IN  ((score \div 100) * ComputeTimeWeight(since_days)) \div Unit

(* a share is the quotient num / den; the two divisions of                *)
(* _dirichlet_smooth, by the pseudo-count total and by total_smoothed,    *)
(* leave (count + alpha) over the sum of all (count + alpha)              *)
Share(num, den) == [num |-> num, den |-> den]

(* _dirichlet_smooth: `keys` is the order in which `scores` is iterated;  *)
(* the result is the list of (intent, share) in the order of `smoothed`   *)
DirichletSmooth(scores, keys, num_classes) ==
    LET total == Sum([j \in DOMAIN keys |-> scores[keys[j]]])
        unseen == SelectSeq(IntentType, LAMBDA t : t \notin DOMAIN scores)
        intents == keys \o unseen
        Count(intent) == IF intent \in DOMAIN scores THEN scores[intent] * 100 ELSE 0
        total_smoothed ==
            Sum([j \in DOMAIN intents |-> Count(intents[j]) + DirichletAlpha])
    IN  IF total * 100 + num_classes * DirichletAlpha = 0 \/ total_smoothed = 0
        THEN Raised("ZeroDivisionError")
        ELSE Returned([j \in DOMAIN intents |->
                         <<intents[j],
                           Share(Count(intents[j]) + DirichletAlpha, total_smoothed)>>])

(* min(1.0, math.log(n + 1) / math.log(100)), in thousandths *)
DataFactor(n) == Min(1000, (1000 * Log2(n + 1, 1)) \div Log2(100, 1))

(* _compute_confidence, in thousandths: weights, in the order of the dict *)
ConfidenceWeights ==
    << <<"orders", 300>>, <<"events", 200>>, <<"texts", 300>>,
       <<"returns", 100>>, <<"acquisitions", 100>> >>

(* _compute_confidence with every source that is given counted in full *)
ComputeConfidenceGiven(sources_given) ==
    LET Part(j) ==
            IF ConfidenceWeights[j][1] \in DOMAIN sources_given
            THEN ConfidenceWeights[j][2] ELSE 0
    IN  Min(1000, Sum([j \in DOMAIN ConfidenceWeights |-> Part(j)]))

ComputeConfidence(sources_given) ==
    LET Part(j) ==
            LET source == ConfidenceWeights[j][1]
            IN  IF source \in DOMAIN sources_given /\ Len(sources_given[source]) > 0
                THEN (ConfidenceWeights[j][2] * DataFactor(Len(sources_given[source])))
                     \div 1000
                ELSE 0
    IN  Min(1000, Sum([j \in DOMAIN ConfidenceWeights |-> Part(j)]))

(* f"{x:.2f}": hundredths, from thousandths *)
TwoDecimals(x) == (x + 5) \div 10

(* IntentSignal; method is the one string f"mixed_weights:{self.weights}" *)
IntentSignal(intent, share, confidence, evidence) ==
    [intent |-> intent, share |-> share, confidence |-> confidence,
     method |-> "mixed_weights", evidence |-> evidence, last_updated |-> now]

(* a.share > b.share: the shares of one list stand over one denominator,  *)
(* which negative scores can make negative                                *)
Greater(a, b) == IF a.den > 0 THEN a.num > b.num ELSE a.num < b.num

(* signals.sort(key=lambda s: s.share, reverse=True): the sort is stable, *)
(* equal shares keep their order                                          *)
RECURSIVE SortByShare(_)
SortByShare(list) ==
    IF list = <<>> THEN <<>>
    ELSE LET rest == SortByShare(Tail(list))
             ahead == SelectSeq(rest, LAMBDA s : Greater(s.share, list[1].share))
             behind == SelectSeq(rest, LAMBDA s : ~Greater(s.share, list[1].share))
         IN  ahead \o <<list[1]>> \o behind

(* lines 238-242: the five extractions, in the order of the calls *)
Extractions(sources_given) ==
    << ExtractFromOrders(Get(sources_given, "orders", <<>>)),
       ExtractFromReturns(Get(sources_given, "returns", <<>>)),
       ExtractFromBehavior(Get(sources_given, "events", <<>>)),
       ExtractFromText(Get(sources_given, "texts", <<>>)),
       ExtractFromChannel(Get(sources_given, "acquisitions", <<>>)) >>

(* lines 245-251: all_intents *)
AllIntents(sources_given) ==
    LET extracted == Extractions(sources_given)
    IN  UNION { IF extracted[j].raised THEN {} ELSE DOMAIN extracted[j].value[1] :
                j \in DOMAIN extracted }

(* a set is iterated in an order that the hashes of its strings decide *)
RECURSIVE IterationOrders(_)
IterationOrders(S) ==
    IF S = {} THEN {<<>>}
    ELSE UNION { { <<x>> \o rest : rest \in IterationOrders(S \ {x}) } : x \in S }

(* compute_intent_signals; `keys` is the order of iteration of all_intents *)
ComputeIntentSignals(sources_given, since_days, keys) ==
    LET extracted == Extractions(sources_given)
        failed == SelectSeq(extracted, LAMBDA e : e.raised)
        order_intents == extracted[1].value[1]
        return_intents == extracted[2].value[1]
        behavior_intents == extracted[3].value[1]
        text_intents == extracted[4].value[1]
        channel_intents == extracted[5].value[1]
        mixed_scores ==
            [intent \in Range(keys) |->
               MixedScore(intent,
                          <<order_intents, return_intents, behavior_intents,
                            text_intents, channel_intents>>, since_days)]
        smoothed_scores == DirichletSmooth(mixed_scores, keys, Len(IntentType))
        Evidence(intent) ==
            (IF intent \in DOMAIN order_intents
             THEN << <<"orders", TwoDecimals(order_intents[intent])>> >> ELSE <<>>)
            \o (IF intent \in DOMAIN text_intents
                THEN << <<"text", TwoDecimals(text_intents[intent])>> >> ELSE <<>>)
            \o (IF intent \in DOMAIN behavior_intents
                THEN << <<"behavior", TwoDecimals(behavior_intents[intent])>> >>
                ELSE <<>>)
    IN  IF failed # <<>> THEN Raised(failed[1].error)
        ELSE IF smoothed_scores.raised THEN smoothed_scores
        ELSE LET shares == smoothed_scores.value[1]
             IN  Returned(SortByShare(
                     [j \in DOMAIN shares |->
                        IntentSignal(shares[j][1], shares[j][2],
                                     ComputeConfidence(sources_given),
                                     Evidence(shares[j][1]))]))

(* The calls of compute_intent_signals.  The lists name few intents       *)
(* between them, so that the orders of iteration of all_intents stay few  *)
GiftOrder == [created_at |-> <<2025, 12, 20>>, gift_wrap |-> TRUE]

BundleOrder ==
    [created_at |-> <<2025, 9, 15>>, gift_wrap |-> FALSE,
     items |-> <<[category |-> "running_shoes"], [category |-> "running_socks"]>>]

OrderLists == {<<>>, <<GiftOrder>>, <<GiftOrder, BundleOrder>>}

ReturnLists ==
    {<<>>, <<[reason |-> "changed_mind"]>>,
     <<[reason |-> "changed_mind"], [reason |-> "size_issue"]>>}

EventLists ==
    {<<>>, <<[type |-> "view_size_guide"]>>,
     <<[type |-> "read_guide", guide_type |-> "Running Guide"],
       [type |-> "view_size_guide"]>>}

ReviewText == [text |-> "A perfect birthday gift", verified_purchase |-> TRUE]

TicketText == [text |-> "Great for training at the gym", source |-> "support_ticket"]

(* a text item whose intent_probs are all intents of the taxonomy *)
ClassifiedText ==
    [text |-> "", intent_probs |-> ("gift" :> 700) @@ ("running" :> 300)]

(* a text item whose intent_probs name an intent outside IntentType *)
ForeignText ==
    [text |-> "", intent_probs |-> ("gift" :> 100) @@ ("wedding" :> 900)]

(* a text item whose classifier score is below zero *)
NegativeText == [text |-> "", intent_probs |-> ("gift" :> -500)]

TextLists ==
    {<<>>, <<ReviewText>>, <<ReviewText, TicketText>>, <<ClassifiedText>>,
     <<ForeignText>>, <<ClassifiedText, ReviewText>>, <<ReviewText, ClassifiedText>>,
     <<NegativeText>>}

AcquisitionLists ==
    {<<>>, <<[utm_campaign |-> "Holiday Gift Guide",
              utm_term |-> "running shoes"]>>}

DataSources ==
    {EmptyDict}
    \cup { ("orders" :> o) @@ ("returns" :> r) @@ ("events" :> e) @@ ("texts" :> t)
           @@ ("acquisitions" :> a) :
           o \in OrderLists, r \in ReturnLists, e \in EventLists, t \in TextLists,
           a \in AcquisitionLists }

SinceDays == {0, 90, 180}

ComputeSignals(since_days) ==
    /\ signals = <<>>
    /\ \E keys \in IterationOrders(AllIntents(data_sources)) :
           signals' = <<[since_days |-> since_days,
                         out |-> ComputeIntentSignals(data_sources, since_days, keys)]>>
    /\ UNCHANGED <<data_sources, ovars, avars, tvars, dvars, kvars>>

InitIntents ==
    /\ providers = <<>>
    /\ cache = EmptyDict
    /\ created = 0
    /\ now = 0
    /\ calls = [c \in CallIds |-> IdleCall]
    /\ invoked = 0
    /\ printed = {}
    /\ new_data = <<>>
    /\ historical_data = <<>>
    /\ anomaly = <<>>
    /\ VerifierAtRest
    /\ DomainAgeAtRest
    /\ data_sources \in DataSources
    /\ signals = <<>>
    /\ KpiAtRest

NextIntents == \E since_days \in SinceDays : ComputeSignals(since_days)

SpecIntents == InitIntents /\ [][NextIntents]_vars

-----------------------------------------------------------------------------
(* KPICalculator (src/src/pipeline/kpi_calculator.py).  Counts, days,    *)
(* grams and per cent are whole numbers; every other number of a record, *)
(* every rate, factor and confidence is counted in thousandths (5000 is  *)
(* 5.0); a raw score, the product of a weight and a factor, in           *)
(* millionths; the score of a calculator in ten-thousandths.             *)

(* a / b, in thousandths *)
Ratio(a, b) == (a * 1000) \div b

(* Unit * e^(-n / d) for n >= 0: the series serves exponents down to -1, *)
(* beyond it e^(-x) is the square of e^(-x / 2); below e^(-16) it is 0   *)
RECURSIVE ExpNeg(_, _)
ExpNeg(n, d) ==
    IF n > 16 * d THEN 0
    ELSE IF n > d THEN LET half == ExpNeg(n, 2 * d) IN (half * half) \div Unit
    ELSE Exp(-n, d)

(* _sigmoid: 1 / (1 + math.exp(-x)), x in millionths *)
Sigmoid(x) ==
    LET e == ExpNeg(Abs(x) \div 1000, 1000)
    IN  IF x >= 0 THEN (Unit * 10000) \div (Unit + e)
        ELSE (e * 10000) \div (Unit + e)

(* math.exp(-x) is out of the range of a float beyond e^709.78 *)
SigmoidOf(x) ==
    IF x < -709782000 THEN Raised("OverflowError") ELSE Returned(Sigmoid(x))

KPIEvidence(factor, value, source, confidence) ==
    [factor |-> factor, value |-> value, source |-> source,
     confidence |-> confidence, timestamp |-> now]

(* return score, evidence *)
Scored(score, evidence) ==
    IF score.raised THEN score
    ELSE Returned([score |-> score.value[1], evidence |-> evidence])

(* 1.0 if flag else 0.0 *)
Flag(d, k) == IF Get(d, k, FALSE) THEN 1000 ELSE 0

(* calculate_fit_hint_score *)
CalculateFitHintScore(d) ==
    LET returns_total == Get(d, "returns_total", 0)
        returns_size == Get(d, "returns_size", 0)
        exchanges_size == Get(d, "exchanges_size", 0)
        purchases_with_advisor == Get(d, "purchases_with_advisor", 0)
        purchases_total == Max(Get(d, "purchases_total", 1), 1)
        reviews_fit_positive == Get(d, "reviews_fit_positive", 0)
        reviews_with_fit == Max(Get(d, "reviews_with_fit", 1), 1)
        return_size_rate == Ratio(returns_size, Max(returns_total, 1))
        exchange_size_rate == Ratio(exchanges_size, purchases_total)
        advisor_usage_rate == Ratio(purchases_with_advisor, purchases_total)
        fit_positive_rate == Ratio(reviews_fit_positive, reviews_with_fit)
        evidence ==
            << KPIEvidence("return_size_rate", return_size_rate, "returns_data",
                           Min(1000, Ratio(returns_total, 10))),
               KPIEvidence("advisor_usage_rate", advisor_usage_rate, "purchase_behavior",
                           Min(1000, Ratio(purchases_total, 50))),
               KPIEvidence("fit_positive_rate", fit_positive_rate, "review_analysis",
                           Min(1000, Ratio(reviews_with_fit, 20))) >>
        raw_score == (-400) * return_size_rate + (-200) * exchange_size_rate
                     + 200 * advisor_usage_rate + 200 * fit_positive_rate
    IN  Scored(SigmoidOf(raw_score + 500000), evidence)

(* self.weights['reliability'] *)
ReliabilityWeights ==
    [rma_rate |-> -300, claim_rate |-> -300, mtbf |-> 200, warranty_claims |-> -100,
     aspect_durability |-> 100]

(* calculate_reliability_score *)
CalculateReliabilityScore(d) ==
    LET rma_count == Get(d, "rma_count", 0)
        claim_count == Get(d, "claim_count", 0)
        units_sold == Max(Get(d, "units_sold", 1000), 1)
        avg_days_to_claim == Get(d, "avg_days_to_claim", 365)
        warranty_claims == Get(d, "warranty_claims", 0)
        reviews_durability_avg == Get(d, "reviews_durability_avg", 500)
        rma_rate == Ratio(rma_count * 1000, units_sold)
        claim_rate == Ratio(claim_count * 1000, units_sold)
        warranty_rate == Ratio(warranty_claims * 1000, units_sold)
        mtbf_normalized == Min(1000, Ratio(avg_days_to_claim, 730))
        evidence ==
            << KPIEvidence("rma_per_1000", rma_rate, "warranty_system",
                           Min(1000, Ratio(units_sold, 1000))),
               KPIEvidence("mtbf_days", avg_days_to_claim, "warranty_system",
                           IF claim_count > 0 THEN Min(1000, Ratio(claim_count, 10))
                           ELSE 100) >>
        category_rma_avg == Get(d, "category_rma_avg", 5000)
        rma_rate_normalized == 1000 - Min(1000, Ratio(rma_rate, category_rma_avg))
        claim_rate_normalized == 1000 - Min(1000, Ratio(claim_rate, category_rma_avg * 2))
        raw_score ==
            ReliabilityWeights.rma_rate * rma_rate_normalized
            + ReliabilityWeights.claim_rate * claim_rate_normalized
            + ReliabilityWeights.mtbf * mtbf_normalized
            + ReliabilityWeights.warranty_claims * (1000 - Min(1000, warranty_rate \div 10))
            + ReliabilityWeights.aspect_durability * reviews_durability_avg
    IN  IF category_rma_avg = 0 THEN Raised("ZeroDivisionError")
        ELSE Scored(SigmoidOf(raw_score), evidence)

(* calculate_performance_score *)
CalculatePerformanceScore(d, category) ==
    LET energy_return == Ratio(Get(d, "energy_return_percent", 50), 100)
        weight_grams == Get(d, "weight_grams", 300)
        cushioning_index == Ratio(Get(d, "cushioning_index", 5), 10)
        stack_height == Get(d, "stack_height_mm", 25)
        weight_score == 1000 - Min(1000, Ratio(Max(0, weight_grams - 200), 300))
        stack_score ==
            IF category = "running" THEN Min(1000, Ratio(stack_height, 40)) ELSE 500
        benchmark_score == Ratio(Get(d, "benchmark_percentile", 50), 100)
        efficiency_rating == Ratio(Get(d, "efficiency_rating", 3), 5)
        latency_score == 1000 - Min(1000, Ratio(Get(d, "latency_ms", 100), 200))
        performance_mentions == Get(d, "reviews_performance_avg", 500)
        category_avg == Get(d, "category_performance_avg", 500)
        evidence ==
            CASE category = "footwear"
                   -> << KPIEvidence("energy_return", energy_return, "lab_test", 950),
                         KPIEvidence("weight_score", weight_score, "product_specs", 1000) >>
              [] category = "electronics"
                   -> << KPIEvidence("benchmark_percentile", benchmark_score,
                                     "benchmark_suite", 900) >>
              [] OTHER -> <<>>
        raw_score ==
            CASE category = "footwear"
                   -> 400 * energy_return + 200 * weight_score + 200 * cushioning_index
                      + 200 * stack_score
              [] category = "electronics"
                   -> 500 * benchmark_score + 300 * efficiency_rating + 200 * latency_score
              [] OTHER -> 1000 * Ratio(performance_mentions, Max(category_avg, 100))
        sigmoid == SigmoidOf(raw_score)
    IN  Scored(IF sigmoid.raised THEN sigmoid ELSE Returned(Min(10000, sigmoid.value[1])),
               evidence)

(* calculate_owner_satisfaction_score; the weighted rating is taken with *)
(* both terms of the quotient doubled                                    *)
CalculateOwnerSatisfactionScore(d) ==
    LET avg_rating_all == Get(d, "avg_rating", 3000)
        avg_rating_verified == Get(d, "avg_rating_verified", avg_rating_all)
        review_count_verified == Get(d, "review_count_verified", 0)
        review_count_total == Max(Get(d, "review_count_total", 1), 1)
        csat_score == Get(d, "csat_product", 700)
        csat_responses == Get(d, "csat_responses", 0)
        sentiment_recent == Get(d, "sentiment_90d", 500)
        sentiment_previous == Get(d, "sentiment_prev_90d", 500)
        sentiment_trend == sentiment_recent - sentiment_previous
        repeat_purchase_rate == Get(d, "repeat_purchase_rate", 100)
        unverified == review_count_total - review_count_verified
        divisor == 3 * review_count_verified + 2 * unverified
        weighted_rating ==
            (3 * avg_rating_verified * review_count_verified
             + 2 * avg_rating_all * unverified) \div divisor
        rating_normalized == (weighted_rating - 1000) \div 4
        evidence ==
            << KPIEvidence("weighted_rating", weighted_rating, "review_system",
                           Min(1000, Ratio(review_count_total, 100))),
               KPIEvidence("csat_score", csat_score, "survey_system",
                           Min(1000, Ratio(csat_responses, 50))),
               KPIEvidence("sentiment_trend", sentiment_trend, "sentiment_analysis", 800) >>
        raw_score == 400 * rating_normalized + 300 * csat_score
                     + 200 * (sentiment_recent + sentiment_trend)
                     + 100 * repeat_purchase_rate
        sigmoid == SigmoidOf(raw_score)
    IN  IF divisor = 0 THEN Raised("ZeroDivisionError")
        ELSE Scored(IF sigmoid.raised THEN sigmoid
                    ELSE Returned(Min(10000, sigmoid.value[1])),
                    evidence)

(* calculate_uniqueness_score *)
CalculateUniquenessScore(d) ==
    LET rare_features == Get(d, "rare_feature_count", 0)
        total_features == Max(Get(d, "total_feature_count", 10), 1)
        feature_rarity == Ratio(rare_features, total_features)
        stock_scarcity == Get(d, "stock_scarcity_score", 0)
        price_percentile == Ratio(Get(d, "price_percentile_category", 50), 100)
        evidence == << KPIEvidence("feature_rarity", feature_rarity, "market_analysis", 700) >>
    IN  Scored(SigmoidOf(feature_rarity * 400 + Flag(d, "is_limited_edition") * 200
                         + stock_scarcity * 200 + price_percentile * 200),
               evidence)

(* material_scores, and the score of a grade that is not among them *)
MaterialScores == [premium |-> 900, high |-> 700, standard |-> 500, basic |-> 300]

(* calculate_craftsmanship_score *)
CalculateCraftsmanshipScore(d) ==
    LET material_score == Get(MaterialScores, Get(d, "material_grade", "standard"), 500)
        origin_score == Get(d, "origin_reputation_score", 500)
        warranty_score == Min(1000, Ratio(Get(d, "warranty_days", 90), 730))
        review_quality_aspect == Get(d, "review_aspect_quality", 500)
        review_craftsmanship_mentions == Get(d, "craftsmanship_mention_rate", 0)
        evidence == << KPIEvidence("material_grade", material_score, "product_specs", 900) >>
    IN  Scored(SigmoidOf(material_score * 300 + origin_score * 200 + warranty_score * 200
                         + review_quality_aspect * 200
                         + review_craftsmanship_mentions * 100),
               evidence)

(* calculate_sustainability_score: the one score that no sigmoid bounds *)
CalculateSustainabilityScore(d) ==
    LET cert_count == Len(Get(d, "sustainability_certifications", <<>>))
        cert_score == Min(1000, Ratio(cert_count, 3))
        recycled_percentage == Ratio(Get(d, "recycled_content_percent", 0), 100)
        carbon_kg == Get(d, "carbon_footprint_kg", 10)
        category_avg_carbon == Get(d, "category_avg_carbon_kg", 10)
        carbon_score == Max(0, 1000 - Ratio(carbon_kg, category_avg_carbon))
        supply_chain_score == Get(d, "supply_chain_transparency", 0)
        evidence ==
            << KPIEvidence("recycled_content", recycled_percentage, "product_specs", 950),
               KPIEvidence("carbon_footprint_relative", carbon_score, "lca_analysis", 800) >>
        score == cert_score * 300 + recycled_percentage * 250 + carbon_score * 200
                 + Flag(d, "sustainable_packaging") * 100 + supply_chain_score * 150
    IN  IF category_avg_carbon = 0 THEN Raised("ZeroDivisionError")
        ELSE Scored(Returned(Min(10000, score \div 100)), evidence)

(* calculate_innovation_score *)
CalculateInnovationScore(d) ==
    LET new_features == Get(d, "new_feature_count", 0)
        patent_count == Get(d, "patent_count", 0)
        awards == Get(d, "award_count", 0)
        press_mentions == Get(d, "press_mention_count", 0)
        tech_generation == Get(d, "tech_generation", 1)
        evidence == << KPIEvidence("patent_count", patent_count, "patent_database", 1000) >>
    IN  Scored(SigmoidOf(Min(1000, Ratio(new_features, 3)) * 250
                         + Min(1000, Ratio(patent_count, 2)) * 200
                         + Min(1000, Ratio(awards, 2)) * 150
                         + Min(1000, Ratio(press_mentions, 10)) * 100
                         + Flag(d, "uses_cutting_edge_tech") * 150
                         + (tech_generation - 1) * 1000 * 100
                         + Flag(d, "is_first_in_category") * 50),
               evidence)

(* round(score, 3): thousandths, from ten-thousandths *)
Round3(score) == (score + 5) \div 10

(* lines 526-548: the eight calculations, in the order of the calls *)
Calculations(d, category) ==
    << CalculateFitHintScore(d), CalculateReliabilityScore(d),
       CalculatePerformanceScore(d, category), CalculateOwnerSatisfactionScore(d),
       CalculateUniquenessScore(d), CalculateCraftsmanshipScore(d),
       CalculateSustainabilityScore(d), CalculateInnovationScore(d) >>

(* the fields of SoftSignals that hold a score, in the order of the calls *)
ScoreFields ==
    <<"fit_hint_score", "reliability_score", "performance_score",
      "owner_satisfaction_score", "uniqueness_score", "craftsmanship_score",
      "sustainability_score", "innovation_score">>

(* calculate_all_soft_signals *)
CalculateAllSoftSignals(d, category) ==
    LET calculated == Calculations(d, category)
        failed == SelectSeq(calculated, LAMBDA c : c.raised)
        Score(j) == Round3(calculated[j].value[1].score)
    IN  IF failed # <<>> THEN Raised(failed[1].error)
        ELSE Returned(
               [fit_hint_score |-> Score(1), reliability_score |-> Score(2),
                performance_score |-> Score(3), owner_satisfaction_score |-> Score(4),
                uniqueness_score |-> Score(5), craftsmanship_score |-> Score(6),
                sustainability_score |-> Score(7), innovation_score |-> Score(8),
                evidence |-> Flatten([j \in DOMAIN calculated |->
                                        calculated[j].value[1].evidence]),
                calculation_method |-> "weighted_factors_sigmoid_normalized",
                last_updated |-> now])

(* The calls of calculate_all_soft_signals *)

(* a field left out, or given with one of the values *)
Field(k, values) == {EmptyDict} \cup { k :> v : v \in values }

(* records of the warranty and sustainability fields, a baseline of zero *)
(* and a share of recycled content below zero among them                 *)
WarrantyRecords ==
    { a @@ b @@ c @@ e @@ f @@ g @@ h @@ i :
        a \in Field("rma_count", {0, 2, 8}),
        b \in Field("claim_count", {5}),
        c \in Field("warranty_claims", {8}),
        e \in Field("avg_days_to_claim", {600}),
        f \in Field("reviews_durability_avg", {800}),
        g \in Field("category_rma_avg", {0}),
        h \in Field("category_avg_carbon_kg", {0}),
        i \in Field("recycled_content_percent", {50, -100}) }

(* the record of the reliability scenario *)
ReliabilityExample ==
    [rma_count |-> 2, units_sold |-> 1000, category_rma_avg |-> 5000,
     avg_days_to_claim |-> 600, reviews_durability_avg |-> 800]

(* a record with fields of every calculator *)
ShoeRecord ==
    [returns_total |-> 20, returns_size |-> 5, exchanges_size |-> 2,
     purchases_total |-> 200, purchases_with_advisor |-> 50,
     reviews_with_fit |-> 40, reviews_fit_positive |-> 30,
     energy_return_percent |-> 70, weight_grams |-> 250, benchmark_percentile |-> 80,
     avg_rating |-> 4200, avg_rating_verified |-> 4500, review_count_total |-> 100,
     review_count_verified |-> 60, rare_feature_count |-> 2,
     is_limited_edition |-> TRUE, material_grade |-> "premium", warranty_days |-> 365,
     sustainability_certifications |-> <<"gots", "fsc">>,
     recycled_content_percent |-> 30, carbon_footprint_kg |-> 8,
     sustainable_packaging |-> TRUE, patent_count |-> 1, tech_generation |-> 2]

ProductDatas == WarrantyRecords \cup {ReliabilityExample, ShoeRecord}

Categories == {"footwear", "electronics", "general"}

CalculateSoftSignals(category) ==
    /\ soft_signals = <<>>
    /\ soft_signals' = <<[category |-> category,
                          out |-> CalculateAllSoftSignals(product_data, category)]>>
    /\ UNCHANGED <<product_data, ovars, avars, tvars, dvars, ivars>>

InitKpi ==
    /\ providers = <<>>
    /\ cache = EmptyDict
    /\ created = 0
    /\ now = 0
    /\ calls = [c \in CallIds |-> IdleCall]
    /\ invoked = 0
    /\ printed = {}
    /\ new_data = <<>>
    /\ historical_data = <<>>
    /\ anomaly = <<>>
    /\ VerifierAtRest
    /\ DomainAgeAtRest
    /\ data_sources = EmptyDict
    /\ signals = <<>>
    /\ product_data \in ProductDatas
    /\ soft_signals = <<>>

NextKpi == \E category \in Categories : CalculateSoftSignals(category)

SpecKpi == InitKpi /\ [][NextKpi]_vars

-----------------------------------------------------------------------------
(* Properties of the orchestrator *)

Awaiting(c) == calls[c].status = "awaiting"

Running(c) == calls[c].status = "running"

Moves(c) == calls'[c] # calls[c]

(* C1: two concurrent enrich_* calls for one cache key are coalesced: at *)
(* every moment at most one fetch is in flight per key.                  *)
C1_SingleFlight ==
    \A a, b \in CallIds :
        (Awaiting(a) /\ Awaiting(b) /\ CurrentKey(a) = CurrentKey(b)) => a = b

(* C2: a call that finds cached Evidence for its key with                *)
(* now - retrieved_at < ttl_hours puts that Evidence into its result map *)
(* under the provider's name and does not invoke the adapter.            *)
C2_FreshCacheReused ==
    [][\A c \in CallIds :
         (/\ Running(c)
          /\ Current(c) \in Registered
          /\ CurrentKey(c) \in DOMAIN cache
          /\ now - cache[CurrentKey(c)].retrieved_at < cache[CurrentKey(c)].ttl_hours
          /\ Moves(c))
         => /\ Current(c) \in DOMAIN calls'[c].results
            /\ calls'[c].results[Current(c)] = cache[CurrentKey(c)]
            /\ calls'[c].status # "awaiting"
            /\ invoked' = invoked
            /\ cache' = cache]_vars

(* C2, its case: two calls hold one Evidence object, which only one of   *)
(* them fetched; it is the cached one.                                   *)
C2_Witness ==
    \E t \in ProviderType :
        /\ t \in DOMAIN calls[1].results
        /\ t \in DOMAIN calls[2].results
        /\ calls[1].entity = calls[2].entity
        /\ calls[1].results[t] = calls[2].results[t]
        /\ cache[CacheKey(t, calls[1].entity, calls[1].id)] = calls[1].results[t]
        /\ invoked = 1

Stale(evidence) == now - evidence.retrieved_at >= evidence.ttl_hours

(* C3: once now - retrieved_at >= ttl_hours holds for the cached         *)
(* Evidence, a call does not return it: it invokes the adapter, no       *)
(* Evidence enters a result map unless it is within its TTL, and on a    *)
(* successful fetch the new Evidence replaces the cache entry and is     *)
(* what the result map holds.                                            *)
C3_ExpiredRefetched ==
    [][\A c \in CallIds :
         /\ (/\ Running(c)
             /\ Current(c) \in Registered
             /\ CurrentKey(c) \in DOMAIN cache
             /\ Stale(cache[CurrentKey(c)])
             /\ Moves(c))
            => /\ calls'[c].status = "awaiting"
               /\ invoked' = invoked + 1
               /\ calls'[c].results = calls[c].results
         /\ \A t \in DOMAIN calls'[c].results :
               (t \notin DOMAIN calls[c].results
                  \/ calls'[c].results[t] # calls[c].results[t])
               => ~Stale(calls'[c].results[t])
         /\ (Awaiting(c) /\ Moves(c) /\ created' # created)
            => /\ Current(c) \in DOMAIN calls'[c].results
               /\ calls'[c].results[Current(c)] = cache'[CurrentKey(c)]
               /\ cache'[CurrentKey(c)].oid = created'
               /\ cache'[CurrentKey(c)].retrieved_at = now]_vars

(* C3, its case: the first call holds Evidence that has expired, the     *)
(* second call holds the Evidence fetched in its place, which is the     *)
(* cached one.                                                           *)
C3_Witness ==
    \E t \in ProviderType :
        /\ t \in DOMAIN calls[1].results
        /\ t \in DOMAIN calls[2].results
        /\ calls[1].entity = calls[2].entity
        /\ Stale(calls[1].results[t])
        /\ calls[2].results[t].oid > calls[1].results[t].oid
        /\ calls[2].results[t].retrieved_at
             >= calls[1].results[t].retrieved_at + calls[1].results[t].ttl_hours
        /\ cache[CacheKey(t, calls[2].entity, calls[2].id)] = calls[2].results[t]

(* C4: fresh Evidence that is anomalous against what is stored under    *)
(* its cache key is cached with data.anomaly_detected = true and         *)
(* ttl_hours = 1.  The anomaly here is the one of the claim: the entry   *)
(* has expired, and the count_total fetched in its place is at least 20  *)
(* times the count_total it holds.                                       *)
C4_AnomalyFlagged ==
    [][\A k \in DOMAIN cache :
         (/\ cache'[k].oid # cache[k].oid
          /\ now - cache[k].retrieved_at >= cache[k].ttl_hours
          /\ "count_total" \in DOMAIN cache[k].data
          /\ "count_total" \in DOMAIN cache'[k].data
          /\ cache[k].data["count_total"] > 0
          /\ cache'[k].data["count_total"] >= 20 * cache[k].data["count_total"])
         => /\ "anomaly_detected" \in DOMAIN cache'[k].data
            /\ cache'[k].data["anomaly_detected"] = TRUE
            /\ cache'[k].ttl_hours = AnomalyTtl]_vars

(* the adapter of the provider the call waits for has the scope asked for *)
InScope(c) == ProviderOf(Current(c))[calls[c].entity]

(* C5: enrich_* never raises.  When the adapter fails with an error      *)
(* other than `unsupported`, the provider gets no entry in the result    *)
(* map and the loop goes on with the next provider; a provider whose     *)
(* fetch succeeds is in the result map; entries are never taken out of   *)
(* it, and the call returns only after the whole list.                   *)
C5_FailureAbsorbed ==
    [][\A c \in CallIds :
         /\ calls'[c].status # "raised"
         /\ (Awaiting(c) /\ Moves(c) /\ InScope(c) /\ created' = created)
            => /\ calls'[c].results = calls[c].results
               /\ calls'[c].i = calls[c].i + 1
               /\ calls'[c].status \in {"running", "done"}
         /\ (Awaiting(c) /\ Moves(c) /\ created' # created)
            => /\ Current(c) \in DOMAIN calls'[c].results
               /\ calls'[c].results[Current(c)].oid = created'
               /\ calls'[c].i = calls[c].i + 1
               /\ calls'[c].status \in {"running", "done"}
         /\ calls'[c].status \in {"running", "awaiting", "done"}
            => DOMAIN calls[c].results \subseteq DOMAIN calls'[c].results
         /\ calls'[c].status = "done"
            => calls'[c].i = Len(calls'[c].providers) + 1]_vars

(* C5, its case: enrich_brand with providers unset, Trustpilot and       *)
(* Google registered; the Trustpilot fetch failed and was printed, the   *)
(* Google fetch succeeded and is the only entry of the result map.       *)
C5_Witness ==
    \E c \in CallIds :
        /\ calls[c].status = "done"
        /\ calls[c].entity = "brand"
        /\ calls[c].unset
        /\ calls[c].providers = <<TRUSTPILOT, GOOGLE_SELLER>>
        /\ DOMAIN calls[c].results = {GOOGLE_SELLER}
        /\ DOMAIN cache = {CacheKey(GOOGLE_SELLER, "brand", calls[c].id)}
        /\ printed = {TRUSTPILOT}
        /\ invoked = 2

(* C6: an adapter that signals `unsupported` is skipped silently: no     *)
(* entry in the result map, no change of the cache, nothing printed,     *)
(* nothing raised, and the loop goes on with the next provider.          *)
C6_UnsupportedSkipped ==
    [][\A c \in CallIds :
         (Awaiting(c) /\ Moves(c) /\ ~InScope(c))
         => /\ calls'[c].results = calls[c].results
            /\ cache' = cache
            /\ printed' = printed
            /\ calls'[c].i = calls[c].i + 1
            /\ calls'[c].status \in {"running", "done"}]_vars

(* C6, its case: enrich_product over Trustpilot and Google; one of the   *)
(* two adapter invocations neither returned Evidence nor was printed,    *)
(* and the result map holds the Google Evidence alone.                   *)
C6_Witness ==
    \E c \in CallIds :
        /\ calls[c].status = "done"
        /\ calls[c].entity = "product"
        /\ calls[c].providers = <<TRUSTPILOT, GOOGLE_SELLER>>
        /\ TRUSTPILOT \in Registered
        /\ DOMAIN calls[c].results = {GOOGLE_SELLER}
        /\ DOMAIN cache = {CacheKey(GOOGLE_SELLER, "product", calls[c].id)}
        /\ printed = {}
        /\ invoked = 2
        /\ created = 1

(* C7: the Evidence handed to a caller is a clone: a caller's write to   *)
(* it changes nothing the cache holds.                                   *)
C7_CallerGetsClone ==
    [][(\E c \in CallIds, t \in ProviderType, h \in CallerTtls : CallerMutate(c, t, h))
         => cache' = cache]_vars

(* the providers a call asks: those of its list that are registered *)
Queried(call) == Range(call.providers) \cap Registered

(* C8: with providers unset, enrich_brand asks every registered          *)
(* provider, and enrich_product asks exactly the registered providers    *)
(* that have product scope.                                              *)
C8_DefaultProviders ==
    [][\A c \in CallIds :
         (calls[c].status = "idle" /\ calls'[c].status # "idle" /\ calls'[c].unset)
         => IF calls'[c].entity = "brand"
            THEN Queried(calls'[c]) = Registered
            ELSE Queried(calls'[c]) = { t \in Registered : ProviderOf(t).product }]_vars

(* C9: within one call the fetches run concurrently: while the call is   *)
(* suspended on one provider's fetch, no other provider of its list that *)
(* needs a fetch is still waiting for its fetch to be started.           *)
C9_ConcurrentFanOut ==
    \A c \in CallIds :
        Awaiting(c)
        => \A j \in (calls[c].i + 1)..Len(calls[c].providers) :
              ~(/\ calls[c].providers[j] \in Registered
                /\ ~CacheFresh(CacheKey(calls[c].providers[j],
                                        calls[c].entity, calls[c].id)))

-----------------------------------------------------------------------------
(* Properties of detect_anomaly *)

(* C10: detect_anomaly flags new data whenever the previous count_total  *)
(* is positive and the new count_total is more than 10 times it.         *)
C10_TenfoldFlagged ==
    (/\ anomaly # <<>>
     /\ historical_data # <<>>
     /\ "count_total" \in DOMAIN new_data
     /\ Get(historical_data[Len(historical_data)], "count_total", 0) > 0
     /\ new_data["count_total"]
          > 10 * Get(historical_data[Len(historical_data)], "count_total", 0))
    => anomaly[1] = TRUE

-----------------------------------------------------------------------------
(* Properties of the TrustVerifier *)

(* the last call was a call of `op` *)
Called(op) == verdict # <<>> /\ verdict[1].op = op

(* the VerificationResult the last call returned *)
Result == verdict[1].out.value[1]

(* the credential came from generate_verifiable_credential *)
Issued(vc_data) ==
    /\ "type" \in DOMAIN vc_data
    /\ vc_data["type"] = <<"VerifiableCredential", "ThirdPartyEvidence">>
    /\ "expirationDate" \in DOMAIN vc_data

(* C11: round trip.  verify_verifiable_credential on a credential that   *)
(* generate_verifiable_credential issued for a trusted issuer, called    *)
(* before the credential expires, returns a result with no anomalies and *)
(* a confidence of at least 0.75.                                        *)
C11_RoundTrip ==
    (/\ Called("verify_verifiable_credential")
     /\ Issued(verdict[1].args)
     /\ verdict[1].args["issuer"] \in TrustedIssuers
     /\ verdict[1].at < verdict[1].args["expirationDate"].t)
    => /\ ~verdict[1].out.raised
       /\ Result.anomalies = <<>>
       /\ Result.confidence >= 750

(* the required fields vc_data lacks, as anomalies *)
MissingAnomalies(vc_data) ==
    { <<"Missing required field", f>> : f \in Range(RequiredFields) \ DOMAIN vc_data }

(* the anomalies of the proof, expirationDate, credentialStatus and      *)
(* issuer checks                                                         *)
CheckAnomalies ==
    { <<"Proof verification failed">>, <<"Credential expired">>,
      <<"Credential revoked">>, <<"Issuer not in trust registry">> }

(* C12: verify_verifiable_credential always returns a result with method *)
(* VC.  With a required field missing the confidence is 0.1 and the      *)
(* anomalies name each missing field; otherwise the confidence is        *)
(* max(0.2, 0.95 - 0.2 * |anomalies|) and the anomalies are those of the *)
(* proof, expirationDate, credentialStatus and issuer checks.            *)
C12_VcAlwaysReturns ==
    Called("verify_verifiable_credential")
    => /\ ~verdict[1].out.raised
       /\ Result.method = VC
       /\ IF MissingAnomalies(verdict[1].args) # {}
          THEN /\ Result.confidence = 100
               /\ Range(Result.anomalies) = MissingAnomalies(verdict[1].args)
          ELSE /\ Result.confidence = Max(200, 950 - 200 * Len(Result.anomalies))
               /\ Range(Result.anomalies) \subseteq CheckAnomalies

(* the data-quality inputs of a result: verified_ratio and total_reviews *)
Quality(result) ==
    <<Optional(result.raw_data, "verified_ratio"),
      Optional(result.raw_data, "total_reviews")>>

(* C13: every VerificationResult has a confidence in [0.1, 1.0], and of  *)
(* two results of one operation with the same data-quality inputs the    *)
(* one with more anomalies never has the higher confidence.  The two     *)
(* results are those of a call and of the call before it.                *)
C13_ConfidenceMonotone ==
    [][(verdict' # <<>> /\ ~verdict'[1].out.raised)
       => LET new == verdict'[1].out.value[1]
          IN  /\ new.confidence >= 100
              /\ new.confidence <= 1000
              /\ (/\ verdict # <<>>
                  /\ ~verdict[1].out.raised
                  /\ verdict[1].op = verdict'[1].op
                  /\ Quality(Result) = Quality(new))
                 => /\ Len(new.anomalies) > Len(Result.anomalies)
                       => new.confidence <= Result.confidence
                    /\ Len(new.anomalies) < Len(Result.anomalies)
                       => new.confidence >= Result.confidence]_vars

(* C14: verify_review_source always returns a result, whatever the       *)
(* source and the expected statistics: with method API when the source   *)
(* has a trusted API and the API answers, and with method SNAPSHOT and a *)
(* snapshot hash when the API is absent or fails.                        *)
C14_ReviewAlwaysReturns ==
    Called("verify_review_source")
    => /\ ~verdict[1].out.raised
       /\ IF Lower(verdict[1].args.source) \in TrustedApis
             /\ ~verdict[1].args.api.raised
          THEN Result.method = API
          ELSE Result.method = SNAPSHOT /\ Result.snapshot_hash # None

(* the kinds of the anomalies in a list *)
Kinds(anomalies) == { anomalies[j][1] : j \in DOMAIN anomalies }

(* C15: with expected {avg_rating: 4.5, total_reviews: 1200} and actual  *)
(* {avg_rating: 4.9, total_reviews: 2400, verified_ratio: 0.25} from the *)
(* snapshot of a source without API, the result reports the rating       *)
(* discrepancy, the suspicious review count increase and the low         *)
(* verified ratio, and its confidence is at most 0.5.                    *)
C15_RatingAnomalyScenario ==
    (/\ Called("verify_review_source")
     /\ Lower(verdict[1].args.source) \notin TrustedApis
     /\ verdict[1].args.expected_stats = [avg_rating |-> 45, total_reviews |-> 1200]
     /\ verdict[1].args.snapshot_data = ReportedStats)
    => /\ verdict[1].out.raised = FALSE
       /\ Kinds(Result.anomalies)
            = {"Rating discrepancy", "Suspicious review count increase",
               "Low verified review ratio"}
       /\ Len(Result.anomalies) = 3
       /\ Result.confidence <= 500

(* the certification asked about has expired at the time of the call or  *)
(* is revoked: the valid_until of its validator, or the expiry_date of   *)
(* its certification data, lies before the call                          *)
ExpiredOrRevoked(call) ==
    LET cert_type == Lower(call.args.cert_type)
        details == Validate(cert_type, call.args.cert_id, call.args.issuer).details
        cert_data == FetchCertificationData(call.args.cert_type, call.args.cert_id,
                                            call.args.issuer)
    IN  \/ CheckRevocation(call.args.cert_type, call.args.cert_id)
        \/ IF cert_type \in CertificationValidators
           THEN "valid_until" \in DOMAIN details /\ details.valid_until.t < call.at
           ELSE cert_data.expiry_date.t < call.at

(* C16: verify_certification returns a result with confidence at most    *)
(* 0.3 whenever the certification is expired or revoked, for the types   *)
(* with a validator and for the types verified through the snapshot.     *)
C16_ExpiredCertLowConfidence ==
    (Called("verify_certification") /\ ExpiredOrRevoked(verdict[1]))
    => /\ ~verdict[1].out.raised
       /\ Result.confidence <= 300

-----------------------------------------------------------------------------
(* Properties of calculate_domain_age *)

(* the lookups that succeeded in returning a date *)
Successful == { n \in Range(LookupNames) : lookups[n].kind = "date" }

(* the date a successful lookup returned *)
DateOf(n) == lookups[n].dates[1]

(* the DomainAgeResult returned *)
DomainAge == age[1].value[1]

(* C17: the sources of the result are exactly the lookups that returned  *)
(* a date, whatever the order of the dates, and the confidence is        *)
(* min(1, |successful lookups| / 2).                                     *)
C17_SourcesAreSuccessfulLookups ==
    age # <<>>
    => /\ ~age[1].raised
       /\ Range(DomainAge.sources) = Successful
       /\ DomainAge.confidence = Min(1000, 500 * Cardinality(Successful))

(* the statement that follows a statement of the call *)
Following(p) ==
    CASE p = "whois" -> "certificate_transparency"
      [] p = "certificate_transparency" -> "dns_history"
      [] p = "dns_history" -> "internet_archive"
      [] p = "internet_archive" -> "score"
      [] p = "score" -> "done"

C19_DomainAgeBounds ==
    age # <<>>
    => /\ ~age[1].raised
       /\ DomainAge.age_days >= 0
       /\ DomainAge.age_score >= 0
       /\ DomainAge.age_score <= 600
       /\ DomainAge.confidence >= 0
       /\ DomainAge.confidence <= 1000

-----------------------------------------------------------------------------
(* Properties of compute_intent_signals *)

Signals == signals[1].out.value[1]

(* C20: every intent of the signals that compute_intent_signals returns   *)
(* is a member of the taxonomy IntentType, and there are exactly twelve   *)
(* signals, one for each member.                                          *)
C20_IntentsWithinTaxonomy ==
    (signals # <<>> /\ ~signals[1].out.raised) =>
        /\ \A j \in DOMAIN Signals : Signals[j].intent \in Range(IntentType)
        /\ Len(Signals) = Len(IntentType)
        /\ \A t \in Range(IntentType) : \E j \in DOMAIN Signals : Signals[j].intent = t


(* the extraction of each source of evidence, under the name it has in    *)
(* an evidence string                                                     *)
Extracted(source) ==
    LET extracted == Extractions(data_sources)
    IN  CASE source = "orders" -> extracted[1].value[1]
          [] source = "returns" -> extracted[2].value[1]
          [] source = "behavior" -> extracted[3].value[1]
          [] source = "text" -> extracted[4].value[1]
          [] source = "channel" -> extracted[5].value[1]

EvidenceSources == {"orders", "returns", "behavior", "text", "channel"}

ReturnedSignals == signals # <<>> /\ ~signals[1].out.raised

(* 0 <= share <= 1 *)
InUnitInterval(share) ==
    IF share.den > 0 THEN 0 <= share.num /\ share.num <= share.den
    ELSE share.den <= share.num /\ share.num <= 0

(* C21: in every bundle that compute_intent_signals returns each share    *)
(* lies in [0, 1], the shares sum to 1 and the signals are ordered by     *)
(* share, non-increasing, whatever the input records and since_days.      *)
C21_SharesFormDistribution ==
    ReturnedSignals =>
        /\ \A j \in DOMAIN Signals : InUnitInterval(Signals[j].share)
        /\ \A j \in DOMAIN Signals :
               Sum([k \in DOMAIN Signals |-> Signals[k].share.num]) = Signals[j].share.den
        /\ \A j \in 1..(Len(Signals) - 1) :
               ~Greater(Signals[j + 1].share, Signals[j].share)

(* C22: the evidence of every signal names exactly the sources (orders,   *)
(* returns, behavior, text, channel) whose extracted weight for the       *)
(* signal's intent is greater than 0, one string for each.                *)
C22_EvidenceForEverySource ==
    ReturnedSignals =>
        \A j \in DOMAIN Signals :
            LET named == Signals[j].evidence
            IN  /\ { named[k][1] : k \in DOMAIN named }
                     = { source \in EvidenceSources :
                           Get(Extracted(source), Signals[j].intent, 0) > 0 }
                /\ \A k, l \in DOMAIN named : named[k][1] = named[l][1] => k = l

AllEmpty ==
    \A source \in {"orders", "returns", "events", "texts", "acquisitions"} :
        Get(data_sources, source, <<>>) = <<>>

(* C23: with all five inputs empty compute_intent_signals returns one     *)
(* signal for each intent of the taxonomy, each with the share 1/12 and   *)
(* the confidence 0.                                                      *)
C23_EmptyInputsUniform ==
    (signals # <<>> /\ AllEmpty) =>
        /\ ~signals[1].out.raised
        /\ Len(Signals) = Len(IntentType)
        /\ \A t \in Range(IntentType) : \E j \in DOMAIN Signals : Signals[j].intent = t
        /\ \A j \in DOMAIN Signals :
               /\ Len(IntentType) * Signals[j].share.num = Signals[j].share.den
               /\ Signals[j].confidence = 0

C23_Witness ==
    /\ signals # <<>> /\ AllEmpty /\ data_sources # EmptyDict
    /\ ~signals[1].out.raised /\ Len(Signals) = Len(IntentType)

(* the list the other way round *)
RECURSIVE Reverse(_)
Reverse(list) == IF list = <<>> THEN <<>> ELSE Reverse(Tail(list)) \o <<list[1]>>

(* C28: extract_from_text adds the weighted intent_probs of every text    *)
(* item that carries them, wherever the item stands in the list, and a    *)
(* list of items with and without intent_probs does not make it fail.     *)
C28_IntentProbsAnyPosition ==
    signals # <<>> =>
        LET texts == Get(data_sources, "texts", <<>>)
        IN  /\ ~ExtractFromText(texts).raised
            /\ ExtractFromText(texts) = ExtractFromText(Reverse(texts))

-----------------------------------------------------------------------------
(* Properties of calculate_all_soft_signals *)

Calculated == soft_signals # <<>>

ReturnedBundle == soft_signals # <<>> /\ ~soft_signals[1].out.raised

Bundle == soft_signals[1].out.value[1]

(* C24: calculate_all_soft_signals returns a SoftSignals bundle for any   *)
(* input map and never raises, a baseline of zero (category_rma_avg,      *)
(* category_avg_carbon_kg) included.                                      *)
C24_CalculatorNeverRaises == Calculated => ~soft_signals[1].out.raised

(* C25: each of the eight scores of a returned bundle lies in [0, 1],     *)
(* whatever the values of the input record.                               *)
C25_ScoresInUnitInterval ==
    ReturnedBundle =>
        \A j \in DOMAIN ScoreFields :
            0 <= Bundle[ScoreFields[j]] /\ Bundle[ScoreFields[j]] <= 1000

(* C26: for rma_count = 2, units_sold = 1000, category_rma_avg = 5.0,     *)
(* avg_days_to_claim = 600 and reviews_durability_avg = 0.8 the           *)
(* reliability_score lies within 0.63 +/- 0.05.                           *)
C26_ReliabilityExample ==
    (Calculated /\ product_data = ReliabilityExample) =>
        /\ ~soft_signals[1].out.raised
        /\ 580 <= Bundle.reliability_score /\ Bundle.reliability_score <= 680

(* C27: in every bundle, for every category, each of the eight scores     *)
(* comes with at least one KPIEvidence of its calculator, and the         *)
(* evidence of the bundle is the evidence of the eight calculators, all   *)
(* of it, in the order of the calculations.                               *)
C27_EvidenceForEveryScore ==
    ReturnedBundle =>
        LET calculated == Calculations(product_data, soft_signals[1].category)
        IN  /\ \A j \in DOMAIN calculated : calculated[j].value[1].evidence # <<>>
            /\ Bundle.evidence
                 = Flatten([j \in DOMAIN calculated |-> calculated[j].value[1].evidence])

(* the fields that count failures, and the values they take in a record   *)
(* or by default                                                          *)
FailureFields == {"rma_count", "claim_count", "warranty_claims"}

QualityFields == {"avg_days_to_claim", "reviews_durability_avg"}

FieldValues(k) ==
    CASE k = "rma_count" -> {0, 2, 8}
      [] k = "claim_count" -> {0, 5}
      [] k = "warranty_claims" -> {0, 8}
      [] k = "avg_days_to_claim" -> {365, 600}
      [] k = "reviews_durability_avg" -> {500, 800}

FieldValue(d, k) ==
    Get(d, k, CASE k = "avg_days_to_claim" -> 365
                [] k = "reviews_durability_avg" -> 500
                [] OTHER -> 0)

(* the reliability score of a record *)
Reliability(d) == CalculateReliabilityScore(d).value[1].score

(* C29: with all other inputs fixed, raising rma_count, claim_count or    *)
(* warranty_claims never raises the reliability score, and raising        *)
(* avg_days_to_claim or reviews_durability_avg never lowers it.           *)
C29_ReliabilityMonotone ==
    ReturnedBundle =>
        /\ \A k \in FailureFields : \A v \in FieldValues(k) :
               v > FieldValue(product_data, k) =>
                   Reliability(Put(product_data, k, v)) <= Reliability(product_data)
        /\ \A k \in QualityFields : \A v \in FieldValues(k) :
               v > FieldValue(product_data, k) =>
                   Reliability(Put(product_data, k, v)) >= Reliability(product_data)

-----------------------------------------------------------------------------
(* Properties of the orchestrator: a refetch that fails *)

(* C30: when the fetch made for an expired cache entry fails, with an     *)
(* error or with `unsupported`, the cache is left as it was: the stale    *)
(* Evidence stays under its key with its data and ttl_hours, the entries  *)
(* of all other keys are untouched, and the provider gets no entry in     *)
(* the result map.                                                        *)
C30_FailedRefetchKeepsCache ==
    [][\A c \in CallIds :
         (/\ Awaiting(c)
          /\ CurrentKey(c) \in DOMAIN cache
          /\ Stale(cache[CurrentKey(c)])
          /\ Moves(c)
          /\ created' = created)
         => /\ cache' = cache
            /\ Current(c) \notin DOMAIN calls'[c].results]_vars

(* C30, its case: Evidence was cached and has expired, the fetch made in  *)
(* its place failed and was printed; the call goes without an entry for   *)
(* the provider and the stale Evidence is still the cached one.           *)
C30_Witness ==
    \E c \in CallIds : \E t \in ProviderType :
        LET key == CacheKey(t, calls[c].entity, calls[c].id)
        IN  /\ calls[c].status = "done"
            /\ t \in Range(calls[c].providers)
            /\ t \notin DOMAIN calls[c].results
            /\ t \in printed
            /\ key \in DOMAIN cache
            /\ Stale(cache[key])
            /\ invoked = 2

=============================================================================
